---- MODULE Spec2Model ----
(***************************************************************************)
(* music-hive: the result reconciliation and confidence-scoring pipeline   *)
(* (utils/song_filter.py, process_text.py), the search/download handlers   *)
(* of gui/download_tab.py and the tagger of downloader.py.                 *)
(*                                                                         *)
(* Text is modelled character by character: a Python str is a sequence of  *)
(* one-character strings, Chars("ab - cd") = <<"a","b"," ","-"," ",...>>.   *)
(* Regular expressions are kept as the patterns of the source, as syntax   *)
(* trees matched by a backtracking matcher with the priorities of Python's *)
(* re module (leftmost match, greedy/lazy quantifiers, ordered             *)
(* alternation).                                                           *)
(***************************************************************************)
EXTENDS Integers, Sequences, FiniteSets, TLC

VARIABLES
    pc,                     \* position of the GUI thread: "idle" or inside _perform_search
    query,                  \* the query of the search in progress / last search
    filtered,               \* filtered_youtube_results of the search in progress
    raw_youtube_results,    \* the results in raw_youtube_results of the search in progress (as a set)
    cand_i,                 \* index of the candidate the loop of _perform_search is at
    search_queries,         \* the queries of _search_spotify_for_youtube_result still to try for it
    spotify_calls,          \* the calls of spotify.search_track made for it so far, each with the tracks answered
    youtube_results,        \* DownloadTab.youtube_results
    processed_results,      \* DownloadTab.processed_results
    selected_youtube_index, \* DownloadTab.selected_youtube_index
    rows,                   \* the rendered result widgets (results_list_layout)
    file_tags,              \* ID3 tags of the file written by the last download
    memory_cache,           \* SpotifyCache.memory_cache: cache key -> entry
    cache_file,             \* the entries in temp/spotify_search_cache.json (none when there is no file)
    now,                    \* time.time(), in seconds
    provider,               \* how the metadata provider answers a query (fixed for a behaviour)
    api_responses,          \* cache key -> the provider's last response to this process, and its time
    probe                   \* inputs and outputs of the pure function under check

vars == <<pc, query, filtered, raw_youtube_results, cand_i, search_queries, spotify_calls, youtube_results, processed_results,
          selected_youtube_index, rows, file_tags, memory_cache, cache_file, now, provider, api_responses, probe>>

(***************************************************************************)
(* Python str                                                              *)
(***************************************************************************)
Chars(s) == [i \in 1..Len(s) |-> SubSeq(s, i, i)] \o <<>>

\* Python's None where a string is expected
None == <<"None">>

LowerLetters == Chars("abcdefghijklmnopqrstuvwxyz")
UpperLetters == Chars("ABCDEFGHIJKLMNOPQRSTUVWXYZ")
Digits == Chars("0123456789")

SeqToSet(s) == {s[i] : i \in 1..Len(s)}

\* \w of re (ASCII part): letters, digits, underscore.  \s: whitespace.
WordChars == SeqToSet(LowerLetters) \cup SeqToSet(UpperLetters) \cup SeqToSet(Digits) \cup {"_"}
SpaceChars == {" "}
WordSpaceChars == WordChars \cup SpaceChars
LetterSpaceAmp == SeqToSet(LowerLetters) \cup SeqToSet(UpperLetters) \cup SpaceChars \cup {"&"}

\* str.lower() of one character and of a string
LowerChar(c) ==
    IF \E i \in 1..26 : UpperLetters[i] = c
    THEN LowerLetters[CHOOSE i \in 1..26 : UpperLetters[i] = c]
    ELSE c
Lower(s) == [i \in 1..Len(s) |-> LowerChar(s[i])] \o <<>>

\* s[a:b] of Python, for 0 <= a, b (positions between characters)
Slice(s, a, b) == IF b <= a THEN <<>> ELSE SubSeq(s, a + 1, IF b > Len(s) THEN Len(s) ELSE b)

\* s.startswith(p) at position i
MatchesAt(s, p, i) == i + Len(p) <= Len(s) /\ \A k \in 1..Len(p) : s[i + k] = p[k]
\* p in s
Contains(s, p) == \E i \in 0..Len(s) : MatchesAt(s, p, i)
\* s.find(p): first position or -1
Find(s, p) ==
    IF Contains(s, p) THEN CHOOSE i \in 0..Len(s) : MatchesAt(s, p, i) /\ \A j \in 0..(i-1) : ~MatchesAt(s, p, j)
    ELSE -1

\* s.strip(cs): remove leading and trailing characters that are in cs
RECURSIVE LStrip(_, _)
LStrip(s, cs) == IF s # <<>> /\ Head(s) \in cs THEN LStrip(Tail(s), cs) ELSE s
RECURSIVE RStrip(_, _)
RStrip(s, cs) == IF s # <<>> /\ s[Len(s)] \in cs THEN RStrip(SubSeq(s, 1, Len(s) - 1), cs) ELSE s
Strip(s) == RStrip(LStrip(s, SpaceChars), SpaceChars)

\* s.split(): the whitespace-separated words of s
RECURSIVE SplitWords(_, _, _)
SplitWords(s, cur, acc) ==
    IF s = <<>> THEN (IF cur = <<>> THEN acc ELSE Append(acc, cur))
    ELSE IF Head(s) \in SpaceChars
         THEN SplitWords(Tail(s), <<>>, IF cur = <<>> THEN acc ELSE Append(acc, cur))
         ELSE SplitWords(Tail(s), Append(cur, Head(s)), acc)
Split(s) == SplitWords(s, <<>>, <<>>)

\* sep.join(parts)
RECURSIVE Join(_, _)
Join(sep, parts) ==
    IF parts = <<>> THEN <<>>
    ELSE IF Len(parts) = 1 THEN parts[1]
    ELSE parts[1] \o sep \o Join(sep, Tail(parts))

\* s.split(sep): the parts between the occurrences of the separator
RECURSIVE SplitOn(_, _)
SplitAt(s, sep, i) ==
    IF i < 0 THEN <<s>> ELSE <<Slice(s, 0, i)>> \o SplitOn(Slice(s, i + Len(sep), Len(s)), sep)
SplitOn(s, sep) == SplitAt(s, sep, Find(s, sep))

Max(a, b) == IF a >= b THEN a ELSE b
Min(a, b) == IF a <= b THEN a ELSE b
Abs(a) == IF a < 0 THEN -a ELSE a
SetMax(S) == CHOOSE m \in S : \A x \in S : x <= m
SetMin(S) == CHOOSE m \in S : \A x \in S : m <= x

(***************************************************************************)
(* Python re: patterns as syntax trees, matched with re's priorities.      *)
(* Ends(r, s, i) lists the positions at which a match of r that starts at  *)
(* position i of s can end, in the order in which re's backtracking tries  *)
(* them; the first one is the match re reports.                            *)
(***************************************************************************)
Lit(str) == [t |-> "lit", s |-> Chars(str)]
Cls(set) == [t |-> "cls", c |-> set]
NotCls(set) == [t |-> "ncls", c |-> set]
AnyChar == [t |-> "any"]
Cat(rs) == [t |-> "cat", r |-> rs]
Alt(rs) == [t |-> "alt", r |-> rs]
Star(r) == [t |-> "star", r |-> r]
LazyStar(r) == [t |-> "lazy", r |-> r]
Plus(r) == Cat(<<r, Star(r)>>)
Opt(r) == Alt(<<r, Lit("")>>)
WordB == [t |-> "wb"]
Bol == [t |-> "bol"]
Eol == [t |-> "eol"]
Ws == Cls(SpaceChars)
WsStar == Star(Ws)
WsPlus == Plus(Ws)
Digit == Cls(SeqToSet(Digits))
WordOrSpace == Cls(WordSpaceChars)
WordCh == Cls(WordChars)

\* the elements of a sequence of positions, first occurrences only, order kept
Dedup(xs) ==
    LET first == SelectSeq([k \in 1..Len(xs) |-> k] \o <<>>, LAMBDA k : \A j \in 1..(k - 1) : xs[j] # xs[k])
    IN [k \in 1..Len(first) |-> xs[first[k]]] \o <<>>

IsWordAt(s, i) == i >= 1 /\ i <= Len(s) /\ s[i] \in WordChars

\* a one-character pattern (class, negated class, dot) accepts the character
CharOk(r, ch) ==
    CASE r.t = "cls" -> ch \in r.c
      [] r.t = "ncls" -> ch \notin r.c
      [] r.t = "any" -> TRUE
\* the number of consecutive characters from position i that r accepts
RunUpTo(s, i, bad) == IF bad = {} THEN Len(s) - i ELSE SetMin(bad) - 1 - i
RunLen(r, s, i) == RunUpTo(s, i, {k \in (i + 1)..Len(s) : ~CharOk(r, s[k])})
\* the ends i+n, .., i (greedy) and i, .., i+n (lazy) of a run of n characters
Downward(i, n) == [k \in 1..(n + 1) |-> i + n + 1 - k] \o <<>>
Upward(i, n) == [k \in 1..(n + 1) |-> i + k - 1] \o <<>>

\* The repetitions of the source are all over one-character patterns, so x* can
\* end after n, n-1, .., 0 characters of the run (x*? after 0, 1, .., n).
RECURSIVE Ends(_, _, _)
RECURSIVE EndsFlat(_, _, _)
RECURSIVE EndsCat(_, _, _)
RECURSIVE EndsAlt(_, _, _)
Ends(r, s, i) ==
    CASE r.t = "lit" -> IF MatchesAt(s, r.s, i) THEN <<i + Len(r.s)>> ELSE <<>>
      [] r.t \in {"cls", "ncls", "any"} -> IF i < Len(s) /\ CharOk(r, s[i + 1]) THEN <<i + 1>> ELSE <<>>
      [] r.t = "wb" -> IF IsWordAt(s, i) # IsWordAt(s, i + 1) THEN <<i>> ELSE <<>>
      [] r.t = "bol" -> IF i = 0 THEN <<i>> ELSE <<>>
      [] r.t = "eol" -> IF i = Len(s) THEN <<i>> ELSE <<>>
      [] r.t = "cat" -> EndsCat(r.r, s, <<i>>)
      [] r.t = "alt" -> Dedup(EndsAlt(r.r, s, i))
      [] r.t = "star" -> Downward(i, RunLen(r.r, s, i))
      [] r.t = "lazy" -> Upward(i, RunLen(r.r, s, i))
EndsFlat(r, s, starts) ==
    IF starts = <<>> THEN <<>>
    ELSE Ends(r, s, Head(starts)) \o EndsFlat(r, s, Tail(starts))
EndsFrom(r, s, starts) == Dedup(EndsFlat(r, s, starts))
EndsCat(rs, s, starts) ==
    IF rs = <<>> \/ starts = <<>> THEN starts
    ELSE EndsCat(Tail(rs), s, EndsFrom(Head(rs), s, starts))
EndsAlt(rs, s, i) ==
    IF rs = <<>> THEN <<>> ELSE Ends(Head(rs), s, i) \o EndsAlt(Tail(rs), s, i)

\* re.search from position i: <<start, end>> of the leftmost match, <<-1, -1>> if none
MatchAt(r, s, start) == <<start, Ends(r, s, start)[1]>>
FirstHit(r, s, hits) == IF hits = {} THEN <<-1, -1>> ELSE MatchAt(r, s, SetMin(hits))
SearchFrom(r, s, i) == FirstHit(r, s, {k \in i..Len(s) : Ends(r, s, k) # <<>>})
\* re.search(r, s) is not None
Search(r, s) == SearchFrom(r, s, 0)[1] >= 0
\* re.match(r, s) is not None
Match(r, s) == Ends(r, s, 0) # <<>>

\* re.sub(r, repl, s): every non-overlapping match replaced, scanning from the left.
\* view is the text the pattern is matched against: s itself, or Lower(s) under
\* re.IGNORECASE (the patterns of the source are in lower case).
RECURSIVE SubFrom(_, _, _, _, _)
\* m is the match found from pos on
SubAt(r, repl, s, view, pos, m) ==
    IF m[1] < 0 THEN Slice(s, pos, Len(s))
    ELSE IF m[2] > m[1] THEN Slice(s, pos, m[1]) \o repl \o SubFrom(r, repl, s, view, m[2])
    ELSE IF m[1] >= Len(s) THEN Slice(s, pos, Len(s)) \o repl
    ELSE Slice(s, pos, m[1]) \o repl \o <<s[m[1] + 1]>> \o SubFrom(r, repl, s, view, m[1] + 1)
SubFrom(r, repl, s, view, pos) == SubAt(r, repl, s, view, pos, SearchFrom(r, view, pos))
Sub(r, repl, s) == SubFrom(r, repl, s, s, 0)
SubIgnoreCase(r, repl, s) == SubFrom(r, repl, s, Lower(s), 0)
\* a run of re.sub calls, each applied to the result of the one before:
\* subs[n] = [r, repl, ignore_case], from call n on
ReSub(r, repl, ignore_case) == [r |-> r, repl |-> repl, ignore_case |-> ignore_case]
RECURSIVE SubAll(_, _, _)
SubAll(subs, s, n) ==
    IF n > Len(subs) THEN s
    ELSE IF Len(s) < 0 THEN s
    ELSE SubAll(subs, SubFrom(subs[n].r, subs[n].repl, s, IF subs[n].ignore_case THEN Lower(s) ELSE s, 0), n + 1)

(***************************************************************************)
(* fuzzywuzzy.fuzz (with python-Levenshtein, as setup.py installs it)      *)
(***************************************************************************)
\* int(round(100 * n / d)): Python rounds an exact half to the even neighbour
RoundHalfEven(n, d) ==
    LET q == n \div d
        r == n % d
    IN IF 2 * r > d THEN q + 1
       ELSE IF 2 * r < d THEN q
       ELSE IF q % 2 = 0 THEN q ELSE q + 1

\* Length of the longest common subsequence, one row of the table at a time.
\* prev[k] holds column k-1 of the previous row; the entry of column j in the row
\* of character ai is max(prev[j], 1 + prev[k-1] for the k <= j with b[k] = ai).
LcsRow(ai, b, prev) ==
    [c \in 1..Len(prev) |->
        SetMax({prev[c]} \cup {prev[k] + 1 : k \in {k \in 1..(c - 1) : b[k] = ai}})] \o <<>>
\* the rows from character i of a on, prev being the row before (each row is
\* complete, as wide as the table, before the next one is started)
RECURSIVE LcsRows(_, _, _, _)
LcsRows(a, b, i, prev) ==
    IF i > Len(a) THEN prev[Len(prev)]
    ELSE LET row == LcsRow(a[i], b, prev)
         IN IF Len(row) = Len(b) + 1 THEN LcsRows(a, b, i + 1, row) ELSE -1
LCS(a, b) == LcsRows(a, b, 1, [j \in 1..(Len(b) + 1) |-> 0] \o <<>>)

\* fuzz.ratio(s1, s2): 100 * (len(s1) + len(s2) - indel distance) / (len(s1) + len(s2)),
\* 100 for equal strings, 0 when either string is empty
fuzz_ratio(s1, s2) ==
    IF s1 = s2 THEN 100
    ELSE IF s1 = <<>> \/ s2 = <<>> THEN 0
    ELSE RoundHalfEven(200 * LCS(s1, s2), Len(s1) + Len(s2))

\* fuzz.partial_ratio(s1, s2): the ratio of the shorter string against the
\* best-matching window of its length in the longer string
WindowScore(shorter, w) ==
    IF w = shorter THEN 100
    ELSE RoundHalfEven(200 * LCS(shorter, w), Len(shorter) + Len(w))
PartialRatio(shorter, longer) ==
    SetMax({WindowScore(shorter, Slice(longer, k, k + Len(shorter))) :
               k \in 0..(Len(longer) - Len(shorter))})
fuzz_partial_ratio(s1, s2) ==
    IF s1 = s2 THEN 100
    ELSE IF s1 = <<>> \/ s2 = <<>> THEN 0
    ELSE IF Len(s1) <= Len(s2) THEN PartialRatio(s1, s2)
    ELSE PartialRatio(s2, s1)

(***************************************************************************)
(* process_text.py                                                         *)
(***************************************************************************)
noise_terms ==
    << "official", "video", "music video", "lyric video", "audio",
       "official audio", "official music video", "lyrics", "hq", "hd",
       "full album", "full song", "live", "cover" >>

ParenGroup == Cat(<<Lit("("), Star(NotCls({")"})), Lit(")")>>)
BracketGroup == Cat(<<Lit("["), Star(NotCls({"]"})), Lit("]")>>)
Word(str) == Cat(<<WordB, Lit(str), WordB>>)

\* the re.sub calls of clean_search_query: each noise term removed as a whole
\* word, in list order, then the groups in brackets, then runs of whitespace
clean_subs ==
    [n \in 1..Len(noise_terms) |-> ReSub(Word(noise_terms[n]), <<>>, FALSE)]
    \o << ReSub(ParenGroup, <<>>, FALSE), ReSub(BracketGroup, <<>>, FALSE),
          ReSub(WsPlus, <<" ">>, FALSE) >>
clean_search_query(q) == Strip(SubAll(clean_subs, Lower(q), 1))

\* re.match of a pattern ^(.*?) sep (.*?) post: the two groups as re's backtracking
\* finds them, <<None, None>> when the pattern does not match
FirstWith(xs, P(_)) == LET ok == SelectSeq(xs, P) IN IF ok = <<>> THEN -1 ELSE ok[1]
\* the first group ends at k and the separator at e1
TwoGroups(post, s, k, e1) ==
    <<Slice(s, 0, k),
      Slice(s, e1, FirstWith(Ends(LazyStar(AnyChar), s, e1), LAMBDA e : Ends(post, s, e) # <<>>))>>
GroupsFrom(sep, post, s, k) ==
    IF k < 0 THEN <<None, None>>
    ELSE TwoGroups(post, s, k,
                   FirstWith(Ends(sep, s, k),
                             LAMBDA e : Ends(Cat(<<LazyStar(AnyChar), post>>), s, e) # <<>>))
MatchTwoGroups(sep, post, s) ==
    GroupsFrom(sep, post, s,
               FirstWith([i \in 1..(Len(s) + 1) |-> i - 1],
                         LAMBDA i : Ends(Cat(<<sep, LazyStar(AnyChar), post>>), s, i) # <<>>))

\* the patterns of extract_song_info, as (separator, end) pairs
song_info_patterns ==
    << <<Cat(<<WsStar, Lit("-"), WsStar>>), Eol>>,
       <<Cat(<<WsStar, Lit("\"")>>), Lit("\"")>>,
       <<Cat(<<WsStar, Lit("'")>>), Lit("'")>>,
       <<Cat(<<WsStar, Lit(":"), WsStar>>), Eol>>,
       <<Cat(<<WsStar, Lit("|"), WsStar>>), Eol>>,
       <<Cat(<<WsStar, Lit("by"), WsStar>>), Eol>> >>

\* extract_song_info(title) = <<artist, song_name>>; g holds the groups of pattern n
RECURSIVE ExtractFrom(_, _)
ExtractGroups(title, n, g) ==
    IF g[1] = None THEN ExtractFrom(title, n + 1)
    ELSE IF n = 6 THEN <<Strip(g[2]), Strip(g[1])>>
    ELSE <<Strip(g[1]), Strip(g[2])>>
ExtractFrom(title, n) ==
    IF n > Len(song_info_patterns) THEN << <<>>, Strip(title) >>
    ELSE ExtractGroups(title, n, MatchTwoGroups(song_info_patterns[n][1], song_info_patterns[n][2], title))
extract_song_info(title) == ExtractFrom(title, 1)

(***************************************************************************)
(* utils/song_filter.py: SongFilter                                        *)
(***************************************************************************)
EXCLUSION_KEYWORDS ==
    << "live", "concert", "tour", "performance", "festival",
       "album", "full album", "playlist", "compilation",
       "cover version", "covers", "instrumental", "karaoke",
       "reaction", "review", "interview", "behind the scenes",
       "making of", "documentary", "trailer", "teaser",
       "how to", "tutorial", "lesson", "guide" >>

TwoWords(a, b) == Cat(<<WordB, Lit(a), WsPlus, Lit(b), WordB>>)
EXCLUSION_PATTERNS ==
    << Cat(<<WordB, Lit("live"), WordB, Star(AnyChar), WordB, Lit("concert"), WordB>>),
       TwoWords("full", "album"),
       TwoWords("cover", "by"),
       TwoWords("reaction", "to"),
       Cat(<<WordB, Lit("lyric"), Opt(Lit("s")), WsPlus, Lit("video"), WordB>>),
       TwoWords("official", "trailer") >>
additional_patterns ==
    << Cat(<<WordB, Lit("live"), WsPlus, Alt(<<Lit("at"), Lit("in"), Lit("from")>>), WordB>>),
       Cat(<<WordB, Plus(Digit), WsStar, Lit("hour"), Opt(Lit("s")), WordB>>),
       Cat(<<WordB, Lit("mix"), WsStar, Opt(Lit("#")), Plus(Digit), WordB>>),
       TwoWords("full", "concert"),
       Word("setlist"),
       TwoWords("mashup", "of") >>

MIN_DURATION == 30
MAX_DURATION == 600
HIGH_CONFIDENCE_THRESHOLD == 80
MEDIUM_CONFIDENCE_THRESHOLD == 60
YOUTUBE_RELEVANCE_THRESHOLD == 65
NON_SPOTIFY_THRESHOLD == 70
DURATION_TOLERANCE == 5

\* A dictionary is a record of the keys it holds; NoneDict stands for None where
\* a dictionary is expected.  d.get(key, default):
NoneDict == [py_none |-> TRUE]
Get(d, key, default) == IF key \in DOMAIN d THEN d[key] ELSE default

\* any(re.search(p, s) for p in patterns)
AnySearch(patterns, s) == \E k \in 1..Len(patterns) : Search(patterns[k], s)
\* any(w in s for w in words)
AnyIn(words, s) == \E k \in 1..Len(words) : Contains(s, Chars(words[k]))

_contains_exclusion_keywords(title, relaxed) ==
    LET title_lower == Lower(title)
    IN \/ AnyIn(EXCLUSION_KEYWORDS, title_lower)
       \/ AnySearch(EXCLUSION_PATTERNS, title_lower)
       \/ (~relaxed /\ AnySearch(additional_patterns, title_lower))

\* int(s): surrounding whitespace, an optional sign, digits with single
\* underscores between them; <<FALSE, 0>> stands for ValueError
DigitVal(ch) == CHOOSE v \in 0..9 : Digits[v + 1] = ch
RECURSIVE DigitsVal(_, _, _)
DigitsVal(s, i, acc) ==
    IF i > Len(s) THEN acc
    ELSE IF s[i] = "_" THEN DigitsVal(s, i + 1, acc)
    ELSE DigitsVal(s, i + 1, acc * 10 + DigitVal(s[i]))
IntBody(body, sign) ==
    IF /\ body # <<>>
       /\ \A i \in 1..Len(body) : body[i] \in SeqToSet(Digits) \cup {"_"}
       /\ body[1] # "_" /\ body[Len(body)] # "_"
       /\ \A i \in 1..(Len(body) - 1) : ~(body[i] = "_" /\ body[i + 1] = "_")
    THEN <<TRUE, sign * DigitsVal(body, 1, 0)>>
    ELSE <<FALSE, 0>>
IntStripped(s) ==
    IF s # <<>> /\ s[1] \in {"+", "-"}
    THEN IntBody(Tail(s), IF s[1] = "-" THEN -1 ELSE 1)
    ELSE IntBody(s, 1)
ParseInt(str) == IntStripped(Strip(str))
\* map(int, parts)
ParseInts(parts) == [k \in 1..Len(parts) |-> ParseInt(parts[k])] \o <<>>

\* _parse_duration(duration_str): seconds, 0 for a missing, empty or malformed string
DurationOf(ints) ==
    IF Len(ints) \notin {2, 3} \/ \E k \in 1..Len(ints) : ~ints[k][1] THEN 0
    ELSE IF Len(ints) = 2 THEN ints[1][2] * 60 + ints[2][2]
    ELSE ints[1][2] * 3600 + ints[2][2] * 60 + ints[3][2]
_parse_duration(duration_str) ==
    IF duration_str = None \/ duration_str = <<>> \/ duration_str = Chars("00:00") THEN 0
    ELSE DurationOf(ParseInts(SplitOn(duration_str, Chars(":"))))

\* Scores are kept exact: the float a*0.5 + b*0.3 + .. of the source is the
\* rational num/den, and a comparison with a threshold t is num >= t * den.

Score(num, den) == [num |-> num, den |-> den]
AtLeast(score, t) == score.num >= t * score.den
\* min(100, max(0, score))
Clamp(score) ==
    IF score.num < 0 THEN Score(0, score.den)
    ELSE IF score.num > 100 * score.den THEN Score(100 * score.den, score.den)
    ELSE score

song_patterns ==
    << Cat(<<Plus(WordOrSpace), Lit(" - "), Plus(WordOrSpace)>>),
       Cat(<<Plus(WordOrSpace), Lit(" by "), Plus(WordOrSpace)>>),
       Cat(<<Plus(WordOrSpace), WsStar, Lit("|"), WsStar, Plus(WordOrSpace)>>),
       Cat(<<Plus(WordOrSpace), Lit(":"), WsStar, Plus(WordOrSpace)>>),
       Cat(<<Lit("(official"), Star(AnyChar), Lit(")")>>),
       Cat(<<Lit("[official"), Star(AnyChar), Lit("]")>>),
       Cat(<<Plus(WordOrSpace), WsStar, Lit("("), Plus(WordOrSpace), WsPlus, Lit("remix)")>>),
       Cat(<<Plus(WordOrSpace), WsPlus, Lit("remix")>>) >>
remix_patterns ==
    << Cat(<<Plus(WordCh), WsPlus, Lit("remix")>>),
       Cat(<<Lit("("), Star(AnyChar), Lit("remix"), Star(AnyChar), Lit(")")>>),
       Cat(<<Lit("remix"), WsPlus, Lit("by"), WsPlus, Plus(WordCh)>>) >>

PatternScore(pattern_matches, is_remix) ==
    IF pattern_matches >= 2 \/ is_remix THEN 90
    ELSE IF pattern_matches = 1 THEN 75
    ELSE 40
SongPatternMatches(title_lower) ==
    Cardinality({k \in 1..Len(song_patterns) : Search(song_patterns[k], title_lower)})
_check_song_patterns(title) ==
    PatternScore(SongPatternMatches(Lower(title)), AnySearch(remix_patterns, Lower(title)))

\* relevance = query_similarity * 0.5 + word_score * 0.3 + pattern_score * 0.2 with
\* word_score = word_matches / len(query_words) * 100, over the denominator 10 * len(query_words)
RelevanceScore(query_similarity, word_matches, n, pattern_score) ==
    Clamp(Score(5 * query_similarity * n + 300 * word_matches + 2 * pattern_score * n, 10 * n))
WordMatches(query_words, title_words) ==
    Cardinality({k \in 1..Len(query_words) :
                    \E j \in 1..Len(title_words) : title_words[j] = query_words[k]})
RelevanceOfWords(title, title_clean, query_clean, query_words) ==
    RelevanceScore(fuzz_ratio(query_clean, title_clean),
                   WordMatches(query_words, Split(title_clean)),
                   IF query_words = <<>> THEN 1 ELSE Len(query_words),
                   _check_song_patterns(title))
RelevanceOf(title, title_clean, query_clean) ==
    RelevanceOfWords(title, title_clean, query_clean, Split(query_clean))
CleanLower(str) == Lower(clean_search_query(str))
_calculate_youtube_relevance(youtube_result, search_query) ==
    RelevanceOf(Get(youtube_result, "title", <<>>),
                CleanLower(Get(youtube_result, "title", <<>>)),
                CleanLower(search_query))

\* Variants of the duration gate that C4 and C5 have to tell from the code's:
\* the gate without its lower bound, and without its upper bound
DurationInRange_NoMinimum(duration) == ~(duration > MAX_DURATION)
DurationInRange_NoMaximum(duration) == ~(duration < MIN_DURATION)
\* "duration < self.MIN_DURATION or duration > self.MAX_DURATION" is the rejection
DurationInRange(duration) == ~(duration < MIN_DURATION \/ duration > MAX_DURATION)
_is_valid_song(result, search_query, relaxed) ==
    IF ~DurationInRange(_parse_duration(Get(result, "duration", <<>>))) THEN FALSE
    ELSE IF _contains_exclusion_keywords(Lower(Get(result, "title", <<>>)), relaxed) THEN FALSE
    ELSE IF ~AtLeast(_calculate_youtube_relevance(result, search_query), IF relaxed THEN 25 ELSE 40) THEN FALSE
    ELSE TRUE

ArtistBonus(title_similarity, artist_in_title) ==
    IF artist_in_title THEN Min(100, title_similarity + 15) ELSE title_similarity
ContainmentBonus(direct, contained) == IF contained THEN Max(direct, 85) ELSE direct
TitleSimilarityOf(youtube_clean, spotify_clean, spotify_artists) ==
    ArtistBonus(ContainmentBonus(fuzz_ratio(youtube_clean, spotify_clean),
                                 Contains(Lower(youtube_clean), Lower(spotify_clean))),
                /\ spotify_artists # <<>>
                /\ Contains(Lower(youtube_clean), CleanLower(spotify_artists[1])))
_calculate_title_similarity(youtube_title, spotify_name, spotify_artists) ==
    TitleSimilarityOf(clean_search_query(youtube_title), clean_search_query(spotify_name),
                      spotify_artists)

\* A variant that C29 has to tell from the code's: durations further apart
\* than the tolerance, or unknown, scored 80
DurationSimilarity_NoMismatch(youtube_duration, spotify_duration) ==
    IF Abs(youtube_duration - spotify_duration) <= DURATION_TOLERANCE THEN 100 ELSE 80
_calculate_duration_similarity(youtube_duration, spotify_duration) ==
    LET duration_diff == Abs(youtube_duration - spotify_duration)
    IN IF youtube_duration = 0 \/ spotify_duration = 0 THEN 0
       ELSE IF duration_diff <= DURATION_TOLERANCE THEN 100
       ELSE IF duration_diff <= 10 THEN 80
       ELSE IF duration_diff <= 20 THEN 60
       ELSE IF duration_diff <= 30 THEN 40
       ELSE 0

ArtistSimilarity(youtube_clean, artist_clean) ==
    IF Contains(youtube_clean, artist_clean) THEN 90
    ELSE fuzz_partial_ratio(artist_clean, youtube_clean)
ArtistSimilarities(youtube_clean, spotify_artists) ==
    {ArtistSimilarity(youtube_clean, CleanLower(spotify_artists[k])) : k \in 1..Len(spotify_artists)}
_calculate_artist_similarity(youtube_title, spotify_artists) ==
    IF spotify_artists = <<>> THEN 50
    ELSE SetMax({0} \cup ArtistSimilarities(CleanLower(youtube_title), spotify_artists))

\* A variant that C15 has to tell from the code's: the confidence without the
\* share of the duration
ConfidenceWithoutDuration(youtube_result, spotify_track) ==
    Clamp(Score(40 * _calculate_title_similarity(Get(youtube_result, "title", <<>>),
                                                 Get(spotify_track, "name", <<>>),
                                                 Get(spotify_track, "artists", <<>>))
                + 25 * _calculate_artist_similarity(Get(youtube_result, "title", <<>>),
                                                    Get(spotify_track, "artists", <<>>)), 100))
\* A variant that C22 has to tell from the code's: the three scores added
\* without their weights and without the limits
ConfidenceUnweighted(youtube_result, spotify_track) ==
    Score(100 * _calculate_title_similarity(Get(youtube_result, "title", <<>>),
                                            Get(spotify_track, "name", <<>>),
                                            Get(spotify_track, "artists", <<>>))
          + 100 * _calculate_duration_similarity(_parse_duration(Get(youtube_result, "duration", <<>>)),
                                                 Get(spotify_track, "duration_ms", 0) \div 1000)
          + 100 * _calculate_artist_similarity(Get(youtube_result, "title", <<>>),
                                               Get(spotify_track, "artists", <<>>)), 100)
\* confidence = title_score * 0.4 + duration_score * 0.35 + artist_score * 0.25, in hundredths
calculate_spotify_match_confidence(youtube_result, spotify_track) ==
    LET youtube_title == Get(youtube_result, "title", <<>>)
        youtube_duration == _parse_duration(Get(youtube_result, "duration", <<>>))
        spotify_name == Get(spotify_track, "name", <<>>)
        spotify_artists == Get(spotify_track, "artists", <<>>)
        spotify_duration == Get(spotify_track, "duration_ms", 0) \div 1000
        title_score == _calculate_title_similarity(youtube_title, spotify_name, spotify_artists)
        duration_score == _calculate_duration_similarity(youtube_duration, spotify_duration)
        artist_score == _calculate_artist_similarity(youtube_title, spotify_artists)
    IN Clamp(Score(40 * title_score + 35 * duration_score + 25 * artist_score, 100))

\* "if spotify_track:" - None and the empty dictionary are both false
Truthy(d) == DOMAIN d # {} /\ d # NoneDict

\* Variants of the two branches of should_include_result that the properties
\* C1, C2 and C3 have to tell from the code's: the high tier tested against the
\* medium threshold; a relevant candidate without a track labelled as a match;
\* the threshold of the branch with a track used without one.
IncludeWithTrack_HighAtMedium(confidence, youtube_relevance) ==
    IF AtLeast(confidence, MEDIUM_CONFIDENCE_THRESHOLD) THEN <<TRUE, "high_confidence_spotify", confidence>>
    ELSE IF AtLeast(youtube_relevance, YOUTUBE_RELEVANCE_THRESHOLD) THEN <<TRUE, "youtube_only", youtube_relevance>>
    ELSE <<FALSE, "low_confidence", confidence>>
IncludeWithoutTrack_AsMatch(youtube_relevance) ==
    IF AtLeast(youtube_relevance, NON_SPOTIFY_THRESHOLD) THEN <<TRUE, "high_confidence_spotify", youtube_relevance>>
    ELSE <<FALSE, "irrelevant", youtube_relevance>>
IncludeWithoutTrack_At65(youtube_relevance) ==
    IF AtLeast(youtube_relevance, YOUTUBE_RELEVANCE_THRESHOLD) THEN <<TRUE, "youtube_only", youtube_relevance>>
    ELSE <<FALSE, "irrelevant", youtube_relevance>>

\* should_include_result: <<should_include, reason, confidence_score>>
IncludeWithTrack(confidence, youtube_relevance) ==
    IF AtLeast(confidence, HIGH_CONFIDENCE_THRESHOLD) THEN <<TRUE, "high_confidence_spotify", confidence>>
    ELSE IF AtLeast(confidence, MEDIUM_CONFIDENCE_THRESHOLD) THEN <<TRUE, "medium_confidence_spotify", confidence>>
    ELSE IF AtLeast(youtube_relevance, YOUTUBE_RELEVANCE_THRESHOLD) THEN <<TRUE, "youtube_only", youtube_relevance>>
    ELSE <<FALSE, "low_confidence", confidence>>
IncludeWithoutTrack(youtube_relevance) ==
    IF AtLeast(youtube_relevance, NON_SPOTIFY_THRESHOLD) THEN <<TRUE, "youtube_only", youtube_relevance>>
    ELSE <<FALSE, "irrelevant", youtube_relevance>>
should_include_result(youtube_result, spotify_track, search_query) ==
    IF Truthy(spotify_track)
    THEN IncludeWithTrack(calculate_spotify_match_confidence(youtube_result, spotify_track),
                          _calculate_youtube_relevance(youtube_result, search_query))
    ELSE IncludeWithoutTrack(_calculate_youtube_relevance(youtube_result, search_query))

OfficialIn(open, close) == Cat(<<WsStar, Lit(open), LazyStar(AnyChar), Lit(close), WsStar>>)
\* the re.sub calls of _extract_core_title, in order
core_subs ==
    << ReSub(OfficialIn("(official", ")"), <<>>, TRUE),
       ReSub(OfficialIn("[official", "]"), <<>>, TRUE),
       ReSub(Cat(<<WsStar, Alt(<<Lit("official"), Lit("music"), Lit("lyric"), Lit("lyrics")>>),
                   WsStar, Opt(Alt(<<Lit("video"), Lit("audio")>>)), WsStar>>), <<>>, TRUE),
       ReSub(Cat(<<WsStar, Lit("|"), WsStar, Star(AnyChar), Eol>>), <<>>, FALSE),
       ReSub(Cat(<<WsStar, Lit("-"), WsStar, Lit("official"), Star(AnyChar), Eol>>), <<>>, TRUE),
       ReSub(WsPlus, <<" ">>, FALSE) >>
_extract_core_title(title) == Strip(SubAll(core_subs, title, 1))

Within(seconds1, seconds2, tolerance) == Abs(seconds1 - seconds2) <= tolerance
_are_durations_similar(duration1, duration2) ==
    Within(_parse_duration(duration1), _parse_duration(duration2), 10)

official_indicators == << "official", "records", "music", "vevo" >>
\* A variant that C12 has to tell from the code's: the shorter title preferred
\* whatever the channels
BetterSource_TitleOnly(result1_official, result2_official, result1, result2) ==
    Len(Get(result1, "title", <<>>)) < Len(Get(result2, "title", <<>>))
BetterSource(result1_official, result2_official, result1, result2) ==
    IF result1_official /\ ~result2_official THEN TRUE
    ELSE IF result2_official /\ ~result1_official THEN FALSE
    ELSE Len(Get(result1, "title", <<>>)) < Len(Get(result2, "title", <<>>))
IsOfficial(result) == AnyIn(official_indicators, Lower(Get(result, "channel", <<>>)))
_is_better_source(result1, result2) ==
    BetterSource(IsOfficial(result1), IsOfficial(result2), result1, result2)

\* the test of the inner loop of _remove_duplicates: result duplicates existing
CoreLower(result) == Lower(_extract_core_title(Get(result, "title", <<>>)))
IsDuplicate(result, existing) ==
    /\ fuzz_ratio(CoreLower(result), CoreLower(existing)) > 80
    /\ _are_durations_similar(Get(result, "duration", <<>>), Get(existing, "duration", <<>>))

\* one round of the outer loop: result replaces the first entry it duplicates
\* (entry i) when it is the better source, is dropped when it is not, and is
\* appended when it duplicates no entry
ReplaceIfBetter(unique_results, result, i) ==
    IF _is_better_source(result, unique_results[i])
    THEN [unique_results EXCEPT ![i] = result]
    ELSE unique_results
\* A variant that C11 has to tell from the code's: a candidate that duplicates
\* no kept entry appended twice
DedupAmong_AppendTwice(unique_results, result, dups) ==
    IF dups = {} THEN Append(Append(unique_results, result), result)
    ELSE unique_results
DedupAmong(unique_results, result, dups) ==
    IF dups = {} THEN Append(unique_results, result)
    ELSE ReplaceIfBetter(unique_results, result, SetMin(dups))
DedupStep(unique_results, result) ==
    DedupAmong(unique_results, result,
               {i \in 1..Len(unique_results) : IsDuplicate(result, unique_results[i])})
RECURSIVE DedupLoop(_, _, _)
DedupLoop(results, n, unique_results) ==
    IF n > Len(results) THEN unique_results
    ELSE IF Len(unique_results) < 0 THEN unique_results
    ELSE DedupLoop(results, n + 1, DedupStep(unique_results, results[n]))
_remove_duplicates(results, search_query) == DedupLoop(results, 1, <<>>)

LettersPlus == Plus(Cls(LetterSpaceAmp))
artist_patterns ==
    << Cat(<<LettersPlus, Eol>>),
       Cat(<<LettersPlus, Lit(" song"), Opt(Lit("s")), Eol>>),
       Cat(<<LettersPlus, Lit(" hit"), Opt(Lit("s")), Eol>>),
       Cat(<<Lit("best of "), LettersPlus, Eol>>) >>
_is_artist_search(search_query) ==
    LET query_lower == Strip(Lower(search_query))
    IN /\ \E k \in 1..Len(artist_patterns) : Match(artist_patterns[k], query_lower)
       /\ ~Contains(query_lower, Chars(" - "))
       /\ ~Contains(query_lower, Chars("("))
       /\ ~Contains(query_lower, Chars("["))

StripChars(s, cs) == RStrip(LStrip(s, cs), cs)
TrailingGroup(open, close) == Cat(<<WsStar, Lit(open), LazyStar(AnyChar), Lit(close), WsStar, Eol>>)
\* the re.sub calls of _extract_song_from_title
\* (the leading-dash pattern of the source also accepts an en dash)
song_part_subs ==
    << ReSub(Cat(<<Bol, WsStar, Lit("-"), WsStar>>), <<>>, FALSE),
       ReSub(TrailingGroup("(", ")"), <<>>, FALSE),
       ReSub(TrailingGroup("[", "]"), <<>>, FALSE),
       ReSub(Cat(<<WsStar, Alt(<<Lit("official"), Lit("music"), Lit("video"), Lit("audio"),
                                 Lit("lyric"), Lit("lyrics")>>), WsStar, Eol>>), <<>>, TRUE) >>
\* ' '.join(artist_words[:i])
ArtistPhrase(artist_words, i) == Join(<<" ">>, SubSeq(artist_words, 1, i))
\* the title after the longest leading artist phrase, hits being the lengths i
\* whose phrase the title starts with
AfterArtist(title, artist_words, hits) ==
    IF hits = {} THEN title
    ELSE StripChars(Slice(title, Len(ArtistPhrase(artist_words, SetMax(hits))), Len(title)), {" ", "-"})
SongPart(title, artist_words) ==
    Strip(SubAll(song_part_subs,
                 AfterArtist(title, artist_words,
                             {i \in 1..Len(artist_words) :
                                 MatchesAt(Lower(title), ArtistPhrase(artist_words, i), 0)}),
                 1))
_extract_song_from_title(title, artist_query) == SongPart(title, Split(Lower(artist_query)))

_score_result_quality(result) ==
    LET title == Lower(Get(result, "title", <<>>))
        channel == Lower(Get(result, "channel", <<>>))
    IN (IF AnyIn(official_indicators, channel) THEN 3 ELSE 0)
       + (IF AnyIn(<<"official video", "official audio">>, title) THEN 2 ELSE 0)
       - (IF AnyIn(<<"cover", "karaoke", "instrumental">>, title) THEN 2 ELSE 0)
       + (IF Len(title) < 100 THEN 1 ELSE 0)

\* A variant that C17 has to tell from the code's: every result a group of its own
GroupInto_Alone(song_groups, result, song_part, near) ==
    Append(song_groups, [key |-> song_part, members |-> <<result>>])
\* song_groups: the groups in insertion order, each with its key and its members
GroupInto(song_groups, result, song_part, near) ==
    IF near = {} THEN Append(song_groups, [key |-> song_part, members |-> <<result>>])
    ELSE [song_groups EXCEPT ![SetMin(near)].members = Append(@, result)]
GroupNear(song_groups, result, song_part) ==
    GroupInto(song_groups, result, song_part,
              {g \in 1..Len(song_groups) : fuzz_ratio(Lower(song_part), Lower(song_groups[g].key)) > 70})
GroupStep(song_groups, result, search_query) ==
    GroupNear(song_groups, result, _extract_song_from_title(Get(result, "title", <<>>), search_query))
RECURSIVE GroupLoop(_, _, _, _)
GroupLoop(results, n, song_groups, search_query) ==
    IF n > Len(results) THEN song_groups
    ELSE IF Len(song_groups) < 0 THEN song_groups
    ELSE GroupLoop(results, n + 1, GroupStep(song_groups, results[n], search_query), search_query)
\* max(group, key): the first member with the greatest key
FirstMax(group, keys) == group[SetMin({k \in 1..Len(group) : keys[k] = SetMax(SeqToSet(keys))})]
FirstBest(group) == FirstMax(group, [k \in 1..Len(group) |-> _score_result_quality(group[k])] \o <<>>)
Greater(a, b) == a.num * b.den > b.num * a.den
\* list.sort(key, reverse=True): descending and stable
Rank(keys, k) ==
    1 + Cardinality({j \in 1..Len(keys) : Greater(keys[j], keys[k])})
      + Cardinality({j \in 1..(k - 1) : ~Greater(keys[j], keys[k]) /\ ~Greater(keys[k], keys[j])})
SortByKeys(xs, keys) == [r \in 1..Len(xs) |-> xs[CHOOSE k \in 1..Len(xs) : Rank(keys, k) = r]] \o <<>>
SortByRelevance(xs, search_query) ==
    SortByKeys(xs, [k \in 1..Len(xs) |-> _calculate_youtube_relevance(xs[k], search_query)] \o <<>>)

\* A variant that C17 has to tell from the code's: the results not cut to ten
TopTen_All(diverse_results) == diverse_results
TopTen(diverse_results) == SubSeq(diverse_results, 1, Min(10, Len(diverse_results)))
BestOfGroups(song_groups) == [g \in 1..Len(song_groups) |-> FirstBest(song_groups[g].members)] \o <<>>
_ensure_artist_variety(results, search_query) ==
    IF Len(results) <= 5 THEN results
    ELSE TopTen(SortByRelevance(BestOfGroups(GroupLoop(results, 1, <<>>, search_query)), search_query))

\* A variant that C27 has to tell from the code's: the results not cut to five
TopFive_All(results) == results \o <<>>
TopFive(results) == SubSeq(results, 1, Min(5, Len(results)))
VarietyIf(is_artist_query, deduplicated_results, search_query) ==
    IF is_artist_query THEN _ensure_artist_variety(deduplicated_results, search_query)
    ELSE deduplicated_results
FilterAs(results, search_query, is_artist_query) ==
    TopFive(VarietyIf(is_artist_query,
                      _remove_duplicates(SelectSeq(results,
                                                   LAMBDA r : _is_valid_song(r, search_query, is_artist_query)),
                                         search_query),
                      search_query))
filter_youtube_results(results, search_query) ==
    FilterAs(results, search_query, _is_artist_search(search_query))

(***************************************************************************)
(* search_youtube.py and search_spotify.py: what the searches hand back    *)
(***************************************************************************)
\* f"{n:02d}"
RECURSIVE DecimalDigits(_)
DecimalDigits(n) == IF n < 10 THEN <<Digits[n + 1]>> ELSE Append(DecimalDigits(n \div 10), Digits[(n % 10) + 1])
TwoDigits(n) ==
    IF n < 0 THEN <<"-">> \o DecimalDigits(-n)
    ELSE IF n < 10 THEN <<"0">> \o DecimalDigits(n)
    ELSE DecimalDigits(n)

\* YouTubeSearch.search: one entry of yt-dlp as the dictionary the search returns;
\* a missing or zero duration is shown as "Unknown"
WatchUrl(id) == Chars("https://www.youtube.com/watch?v=") \o id
FormatEntry(entry) ==
    [ id |-> entry.id,
      title |-> Get(entry, "title", Chars("Unknown Title")),
      channel |-> Get(entry, "uploader", Chars("Unknown Channel")),
      url |-> WatchUrl(entry.id),
      duration |-> IF Get(entry, "duration", 0) = 0 THEN Chars("Unknown")
                   ELSE TwoDigits(entry.duration \div 60) \o <<":">> \o TwoDigits(entry.duration % 60) ]
YouTubeSearch_search(entries, limit) ==
    LET found == SubSeq(entries, 1, Min(limit, Len(entries)))
        shown == SelectSeq(found, LAMBDA entry : Get(entry, "id", <<>>) # <<>>)
    IN [k \in 1..Len(shown) |-> FormatEntry(shown[k])] \o <<>>

\* SpotifySearch.search_track: one item of the provider's answer as the
\* dictionary the search returns (and caches); album_art is the URL of the
\* narrowest image, None without images
NarrowestImage(images) ==
    LET w == SetMin({images[k].width : k \in 1..Len(images)})
    IN images[SetMin({k \in 1..Len(images) : images[k].width = w})].url
FormatTrack(item) ==
    [ id |-> item.id,
      title |-> item.name,
      artist |-> Join(Chars(", "), Get(item, "artists", <<>>)),
      album |-> item.album.name,
      album_art |-> IF item.album.images = <<>> THEN None ELSE NarrowestImage(item.album.images),
      preview_url |-> Get(item, "preview_url", None),
      release_date |-> Get(item.album, "release_date", <<>>),
      duration_ms |-> Get(item, "duration_ms", 0),
      artists |-> Get(item, "artists", <<>>) ]
search_track(items, limit) ==
    LET shown == SubSeq(items, 1, Min(limit, Len(items)))
    IN [k \in 1..Len(shown) |-> FormatTrack(shown[k])] \o <<>>

(***************************************************************************)
(* gui/download_tab.py: matching a candidate with the metadata provider    *)
(***************************************************************************)
decoration_patterns ==
    << Cat(<<Lit("["), LazyStar(AnyChar), Lit("]")>>),
       Cat(<<Lit("("), LazyStar(AnyChar), Lit(")")>>),
       Cat(<<Lit("official"), LazyStar(AnyChar), Lit("video")>>),
       Cat(<<Lit("official"), LazyStar(AnyChar), Lit("audio")>>),
       Cat(<<Lit("lyric"), Opt(Lit("s"))>>),
       Lit("hd"),
       Lit("4k") >>
\* cleaned = re.sub(pattern, '', cleaned, flags=re.IGNORECASE) for each pattern
RemoveDecorations(title) ==
    SubAll([n \in 1..Len(decoration_patterns) |-> ReSub(decoration_patterns[n], <<>>, TRUE)] \o <<>>,
           title, 1)
\* ' '.join(cleaned.split()).strip()
_simplify_youtube_title(title) == Strip(Join(<<" ">>, Split(RemoveDecorations(title))))

\* the search_queries list of _search_spotify_for_youtube_result, info being
\* (artist, song_name)
QueriesFor(clean_title, info, simplified_title) ==
    (IF info[1] # <<>> /\ info[2] # <<>>
     THEN << Chars("artist:\"") \o info[1] \o Chars("\" track:\"") \o info[2] \o Chars("\""),
             info[1] \o <<" ">> \o info[2],
             Chars("track:\"") \o info[2] \o Chars("\"") >>
     ELSE <<>>)
    \o <<clean_title>>
    \o (IF simplified_title # clean_title THEN <<simplified_title>> ELSE <<>>)
QueriesOf(video_title, clean_title) ==
    QueriesFor(clean_title, extract_song_info(clean_title), _simplify_youtube_title(video_title))
SearchQueries(youtube_result) ==
    QueriesOf(Get(youtube_result, "title", <<>>), clean_search_query(Get(youtube_result, "title", <<>>)))

\* _parse_duration_to_seconds: 0 unless the string has a colon and two or three integer parts
_parse_duration_to_seconds(duration_str) ==
    IF duration_str = None \/ ~Contains(duration_str, Chars(":")) THEN 0
    ELSE DurationOf(ParseInts(SplitOn(duration_str, Chars(":"))))

\* _find_best_spotify_match.  The score of a track, in thousandths: 0.6, 0.3 or 0.1
\* for the duration (0.3 when the track has none), popularity / 100 * 0.3, and
\* 0.1 when the track has a name and artists.
Nonempty(d, key) == key \in DOMAIN d /\ d[key] # <<>>
\* A variant that C28 has to tell from the code's: a duration within 15 seconds
\* scored as a good match
DurationMatchScore_Within15(spotify_duration, youtube_duration) ==
    IF spotify_duration > 0 /\ Abs(spotify_duration - youtube_duration) > 15 THEN 100 ELSE 600
DurationMatchScore(spotify_duration, youtube_duration) ==
    LET duration_diff == Abs(spotify_duration - youtube_duration)
    IN IF spotify_duration > 0
       THEN (IF duration_diff <= 5 THEN 600 ELSE IF duration_diff <= 15 THEN 300 ELSE 100)
       ELSE 300
MatchScore(track, youtube_duration) ==
    DurationMatchScore(Get(track, "duration_ms", 0) \div 1000, youtube_duration)
       + 3 * Get(track, "popularity", 0)
       + (IF Nonempty(track, "name") /\ Nonempty(track, "artists") THEN 100 ELSE 0)
\* the loop keeps the first track with the greatest score; the result is None
\* unless that score is above 0.4
\* A variant that C8 has to tell from the code's: the best track returned
\* whatever its score
FirstWithScore_NoThreshold(spotify_results, score, best_score) ==
    IF spotify_results = <<>> THEN NoneDict
    ELSE spotify_results[SetMin({k \in 1..Len(spotify_results) : score[k] = best_score})]
\* A variant that C13 has to tell from the code's: of the tracks with the
\* greatest score the last one
FirstWithScore_LastOfEqual(spotify_results, score, best_score) ==
    IF spotify_results = <<>> \/ best_score <= 400 THEN NoneDict
    ELSE spotify_results[SetMax({k \in 1..Len(spotify_results) : score[k] = best_score})]
FirstWithScore(spotify_results, score, best_score) ==
    IF spotify_results = <<>> \/ best_score <= 400 THEN NoneDict
    ELSE spotify_results[SetMin({k \in 1..Len(spotify_results) : score[k] = best_score})]
BestByScore(spotify_results, score) ==
    FirstWithScore(spotify_results, score, SetMax({0} \cup SeqToSet(score)))
MatchScores(spotify_results, youtube_duration) ==
    [k \in 1..Len(spotify_results) |-> MatchScore(spotify_results[k], youtube_duration)] \o <<>>
_find_best_spotify_match(spotify_results, youtube_result) ==
    BestByScore(spotify_results,
                MatchScores(spotify_results,
                            _parse_duration_to_seconds(Get(youtube_result, "duration", Chars("0:00")))))

_check_duration_mismatch(spotify_track, youtube_result) ==
    Abs(Get(spotify_track, "duration_ms", 0) \div 1000
        - _parse_duration_to_seconds(Get(youtube_result, "duration", Chars("0:00"))))

\* _search_better_youtube_video, given what youtube.search returned for
\* "artist - song_name": the first result closest in duration, within 5 seconds
ClosestOf(search_results, diff, close) ==
    IF close = {} THEN NoneDict
    ELSE search_results[SetMin({k \in close : diff[k] = SetMin({diff[j] : j \in close})})]
ClosestWithin(search_results, diff) ==
    ClosestOf(search_results, diff, {k \in 1..Len(search_results) : diff[k] <= 5})
DurationDiffs(search_results, spotify_duration) ==
    [k \in 1..Len(search_results) |->
        Abs(spotify_duration - _parse_duration_to_seconds(Get(search_results[k], "duration", Chars("0:00"))))]
    \o <<>>
_search_better_youtube_video(search_results, spotify_track) ==
    ClosestWithin(search_results,
                  DurationDiffs(search_results, Get(spotify_track, "duration_ms", 0) \div 1000))

\* "duration_mismatch > 5 and artist and song_name", info being (artist, song_name)
HasArtistAndSong(info) == info[1] # <<>> /\ info[2] # <<>>
WantsBetter(youtube_result, best_match) ==
    /\ _check_duration_mismatch(best_match, youtube_result) > 5
    /\ HasArtistAndSong(extract_song_info(clean_search_query(Get(youtube_result, "title", <<>>))))
\* One search strategy of the loop of _search_spotify_for_youtube_result: what
\* it does with the provider's answer to one query.  <<"next">> moves on to the
\* next query; <<"return", spotify_track, better_youtube>> ends the loop.
\* better_results is youtube.search's answer.
ReturnMatch(youtube_result, best_match, better_results) ==
    IF best_match = NoneDict THEN <<"next">>
    ELSE IF WantsBetter(youtube_result, best_match)
         THEN <<"return", best_match, _search_better_youtube_video(better_results, best_match)>>
         ELSE <<"return", best_match, NoneDict>>
TryQuery(youtube_result, spotify_results, better_results) ==
    ReturnMatch(youtube_result, _find_best_spotify_match(spotify_results, youtube_result), better_results)
\* does that strategy go on to ask youtube.search for a better video
AsksFor(youtube_result, best_match) ==
    best_match # NoneDict /\ WantsBetter(youtube_result, best_match)
AsksBetter(youtube_result, spotify_results) ==
    AsksFor(youtube_result, _find_best_spotify_match(spotify_results, youtube_result))

(***************************************************************************)
(* gui/download_tab.py: the result list                                    *)
(***************************************************************************)
\* a value that is a dictionary where the reader expects a string
Dict(r) == <<"dict", r>>
IsStr(v) == v = <<>> \/ v[1] \notin {"dict", "None"}
\* truth value of a string or None
TruthyStr(v) == v # None /\ v # <<>>

\* _create_result_widget: the title label.  The metadata track's 'name' when it
\* has one, the candidate's title otherwise.
WidgetTitle(processed_result) ==
    IF Truthy(processed_result.spotify_track)
    THEN Get(processed_result.spotify_track, "name", Get(processed_result.youtube_result, "title", Chars("Unknown")))
    ELSE Get(processed_result.youtube_result, "title", Chars("Unknown"))
\* the artist the subtitle starts with
WidgetArtist(processed_result) ==
    IF Truthy(processed_result.spotify_track)
    THEN (IF Get(processed_result.spotify_track, "artists", <<>>) # <<>>
          THEN Join(Chars(", "), processed_result.spotify_track.artists)
          ELSE Chars("Unknown Artist"))
    ELSE Get(processed_result.youtube_result, "channel", Chars("Unknown Artist"))
WidgetSubtitle(processed_result) ==
    LET duration == Get(processed_result.youtube_result, "duration", Chars("Unknown"))
    IN WidgetArtist(processed_result)
       \o (IF duration # Chars("Unknown") THEN Chars(" - ") \o duration ELSE <<>>)
\* cover_url: <<"url", u>>, <<"none">>, or <<"raise">> when 'album' is a string,
\* which has no get (search_track stores the album's name there)
WidgetCoverUrl(processed_result) ==
    LET spotify_track == processed_result.spotify_track
    IN IF ~Truthy(spotify_track) THEN <<"none">>
       ELSE IF TruthyStr(Get(spotify_track, "album_art", None)) THEN <<"url", spotify_track.album_art>>
       ELSE IF "album" \in DOMAIN spotify_track THEN <<"raise">>
       ELSE <<"none">>
\* what the cover label ends up showing.  fetch is what requests.get and
\* QPixmap.loadFromData do with the URL: "loaded" (status 200 and the image
\* loads), "failed" (the label is left as created) or "error" (an exception).
CoverLabel(cover_url, fetch) ==
    IF cover_url[1] = "url"
    THEN (CASE fetch = "loaded" -> "cover_art"
            [] fetch = "failed" -> "empty"
            [] fetch = "error" -> "placeholder")
    ELSE "placeholder"
WidgetWith(processed_result, cover_url, fetch) ==
    [ title |-> WidgetTitle(processed_result),
      subtitle |-> WidgetSubtitle(processed_result),
      cover_url |-> cover_url,
      cover |-> CoverLabel(cover_url, fetch) ]
_create_result_widget(processed_result, fetch) ==
    WidgetWith(processed_result, WidgetCoverUrl(processed_result), fetch)
\* _populate_results: one widget per processed result, in order; an exception
\* in _create_result_widget leaves the widgets added before it
Raises(processed_result) == WidgetCoverUrl(processed_result)[1] = "raise"
WidgetsBefore(processed, fetches, bad) ==
    [k \in 1..(IF bad = {} THEN Len(processed) ELSE SetMin(bad) - 1) |->
        _create_result_widget(processed[k], fetches[k])] \o <<>>
_populate_results(processed, fetches) ==
    WidgetsBefore(processed, fetches, {k \in 1..Len(processed) : Raises(processed[k])})

(***************************************************************************)
(* gui/download_tab.py and downloader.py: downloading the selected result  *)
(***************************************************************************)
\* _clean_title_for_metadata: the patterns of _simplify_youtube_title (titles
\* here are ASCII, so the pattern for lenticular brackets never applies)
_clean_title_for_metadata(title) == Strip(Join(<<" ">>, Split(RemoveDecorations(title))))

_parse_duration_to_ms(duration_str) ==
    IF duration_str = None \/ ~Contains(duration_str, Chars(":")) THEN 0
    ELSE DurationOf(ParseInts(SplitOn(duration_str, Chars(":")))) * 1000

\* s.split(sep, 1) when sep is in s
SplitOnceAt(s, sep, i) == <<Slice(s, 0, i), Slice(s, i + Len(sep), Len(s))>>
SplitOnce(s, sep) == SplitOnceAt(s, sep, Find(s, sep))
\* (song, artist) of a cleaned title
StripBoth(parts) == <<Strip(parts[1]), Strip(parts[2])>>
Swap(pair) == <<pair[2], pair[1]>>
SongAndArtist(clean_title, youtube_result) ==
    IF Contains(clean_title, Chars(" - "))
    THEN Swap(StripBoth(SplitOnce(clean_title, Chars(" - "))))
    ELSE IF Contains(Lower(clean_title), Chars(" by "))
    THEN StripBoth(SplitOnce(Lower(clean_title), Chars(" by ")))
    ELSE <<clean_title, Get(youtube_result, "channel", Chars("Unknown Artist"))>>
MetadataOf(song_artist, youtube_result) ==
    [ name |-> song_artist[1],
      artists |-> <<song_artist[2]>>,
      album |-> Dict([name |-> Chars("Unknown Album")]),
      duration_ms |-> _parse_duration_to_ms(Get(youtube_result, "duration", Chars("0:00"))) ]
_extract_youtube_metadata(youtube_result) ==
    MetadataOf(SongAndArtist(_clean_title_for_metadata(Get(youtube_result, "title", <<>>)), youtube_result),
               youtube_result)

\* _on_download_selected: the metadata handed to the download worker
SelectedMetadata(processed_result) ==
    IF processed_result.reason \in {"high_confidence_spotify", "medium_confidence_spotify"}
    THEN processed_result.spotify_track
    ELSE IF processed_result.reason = "youtube_only"
    THEN _extract_youtube_metadata(processed_result.youtube_result)
    ELSE NoneDict

\* Downloader._apply_metadata: the ID3 frames in the file after the call.  A
\* text frame takes strings; text_frames says what the tag library does with
\* another value ("reject": it raises, nothing is saved; "accept": the frame is
\* stored).  art is what requests.get answers for the album art.
TagKeys == <<"title", "artist", "album", "year">>
TextFrames(metadata) == [k \in {key \in SeqToSet(TagKeys) : key \in DOMAIN metadata} |-> metadata[k]]
ApplyFrames(metadata, frames, text_frames, art) ==
    IF (\E k \in DOMAIN frames : ~IsStr(frames[k])) /\ text_frames = "reject"
    THEN [saved |-> FALSE, frames |-> <<>>, album_art |-> None]
    ELSE [ saved |-> TRUE,
           frames |-> frames,
           album_art |-> IF /\ "album_art_url" \in DOMAIN metadata
                            /\ TruthyStr(metadata.album_art_url)
                            /\ art = "loaded"
                         THEN metadata.album_art_url ELSE None ]
_apply_metadata(metadata, text_frames, art) ==
    ApplyFrames(metadata, TextFrames(metadata), text_frames, art)

\* Downloader.download: metadata is applied when there is some and the file exists
download(song_info, text_frames, art) ==
    IF Truthy(song_info) THEN _apply_metadata(song_info, text_frames, art)
    ELSE [saved |-> FALSE, frames |-> <<>>, album_art |-> None]

(***************************************************************************)
(* The environment: what the user types, what yt-dlp and the metadata      *)
(* provider answer, and the inputs the pure functions are applied to.      *)
(***************************************************************************)
MaxRaw == 2         \* entries yt-dlp answers one search with
MaxTracks == 2      \* items the metadata provider answers one query with
MaxDedupLen == 3    \* length of the lists _remove_duplicates is applied to
MaxFilterLen == 2   \* length of the lists filter_youtube_results is applied to
MaxVarietyLen == 12 \* length of the lists _ensure_artist_variety is applied to
MaxTicks == 2       \* times the clock of the cache moves on, half a cache_duration each

RECURSIVE Pow(_, _)
Pow(b, e) == IF e = 0 THEN 1 ELSE b * Pow(b, e - 1)
\* the lists of a given length over a pool, numbered from 0, and all lists up to a length
NthList(pool, len, idx) == [j \in 1..len |-> pool[((idx \div Pow(Len(pool), j - 1)) % Len(pool)) + 1]] \o <<>>
ListsOfLen(pool, len) == [idx \in 1..Pow(Len(pool), len) |-> NthList(pool, len, idx - 1)] \o <<>>
RECURSIVE ListsUpTo(_, _)
ListsUpTo(pool, n) == IF n = 0 THEN ListsOfLen(pool, 0) ELSE ListsUpTo(pool, n - 1) \o ListsOfLen(pool, n)
IndexIn(pool, v) == CHOOSE k \in 1..Len(pool) : pool[k] = v

Candidate(title, channel, duration) == [title |-> Chars(title), channel |-> Chars(channel), duration |-> Chars(duration)]
Track(name, artists, duration_ms) == [name |-> Chars(name), artists |-> artists, duration_ms |-> duration_ms]

\* inputs of should_include_result and calculate_spotify_match_confidence
IncludeCandidates ==
    << Candidate("Ab - Cd", "AbVEVO", "03:45"),
       Candidate("Ab - Cd (Official Video)", "Fan", "03:45"),
       Candidate("Abx - Cd", "Fan", "03:58"),
       Candidate("abcde", "Fan", "03:45"),
       Candidate("Xy Zq", "Xy", "03:20"),
       Candidate("Ab - Cd", "Fan", "Unknown") >>
IncludeTracks ==
    << NoneDict,
       Track("Cd", <<Chars("Ab")>>, 225000),
       Track("Cd", <<Chars("Zz")>>, 226000),
       Track("Ef", <<Chars("Zz")>>, 300000),
       Track("abcdx", <<Chars("zz")>>, 233000),
       Track("abcdx", <<Chars("abcdx")>>, 233000),
       [artists |-> <<Chars("Zz")>>, duration_ms |-> 226000],
       [name |-> Chars("Cd")],
       [name |-> <<>>, artists |-> <<>>, duration_ms |-> 0],
       [name |-> <<>>, artists |-> <<Chars("Ab")>>, duration_ms |-> 225000],
       Track("Cd", <<Chars("Ab")>>, 300000) >>
IncludeQueries == <<Chars("ab cd"), Chars("cd"), Chars("xy zq")>>

\* inputs of _is_valid_song and filter_youtube_results
FilterTitles == <<"Ab - Cd", "Ab - Cd (Official Video)", "Ab - Cd full album", "Xy Zq">>
FilterDurations == <<"", "Unknown", "00:29", "00:30", "03:45", "10:00", "10:01", "1:00:00", "-1:30", "ab:cd">>
FilterCandidates ==
    [k \in 1..(Len(FilterTitles) * Len(FilterDurations)) |->
        Candidate(FilterTitles[((k - 1) \div Len(FilterDurations)) + 1], "Fan",
                  FilterDurations[((k - 1) % Len(FilterDurations)) + 1])] \o <<>>
FilterQueries == <<Chars("ab cd"), Chars("ab")>>
\* inputs of _parse_duration: no duration, the two forms, and strings of neither
DurationInputs ==
    << None, Chars(""), Chars("00:00"), Chars("3:45"), Chars("03:45"), Chars("0:07"), Chars("12:00"),
       Chars("1:02:03"), Chars("0:10:00"), Chars("ab"), Chars("ab:cd"), Chars("3:4b"), Chars("45"),
       Chars("1:2:3:4"), Chars(":"), Chars("3:"), Chars("Unknown"), Chars("-1:30"), Chars("0:-5"),
       Chars("-1:00:00") >>
FilterListPool ==
    << Candidate("Ab - Cd", "AbVEVO", "03:45"),
       Candidate("Ab - Cd", "Fan", "00:20"),
       Candidate("Ab - Cd (Official Video)", "Fan", "10:01"),
       Candidate("Ab - Cd full album", "Fan", "03:45"),
       Candidate("Ab - Ef", "Fan", "Unknown"),
       Candidate("Ab - Ef", "Fan", "10:00") >>
FilterLists == ListsUpTo(FilterListPool, MaxFilterLen)

\* candidates with a title, channel or duration that is absent, None, empty or
\* not a duration, next to a well-formed one
MalformedCandidates ==
    << Candidate("Ab - Cd", "Fan", "03:45"),
       [channel |-> Chars("Fan"), duration |-> Chars("03:45")],
       [title |-> None, channel |-> Chars("Fan"), duration |-> Chars("03:45")],
       Candidate("", "Fan", "03:45"),
       [title |-> Chars("Ab - Cd"), duration |-> Chars("03:45")],
       [title |-> Chars("Ab - Cd"), channel |-> None, duration |-> Chars("03:45")],
       Candidate("Ab - Cd", "", "03:45"),
       [title |-> Chars("Ab - Cd"), channel |-> Chars("Fan")],
       [title |-> Chars("Ab - Cd"), channel |-> Chars("Fan"), duration |-> None],
       Candidate("Ab - Cd", "Fan", ""),
       Candidate("Ab - Cd", "Fan", "ab:cd") >>
MalformedLists == ListsUpTo(MalformedCandidates, MaxFilterLen)
MalformedQueries == <<Chars(""), Chars("ab cd"), Chars("ab")>>
MalformedTracks == <<NoneDict, Track("Cd", <<Chars("Ab")>>, 225000)>>

\* inputs of _remove_duplicates
DedupPool ==
    << Candidate("Ab - Cd", "Fan", "01:40"),
       Candidate("Ab - Cd", "Fan", "02:00"),
       Candidate("Ab - Cd", "AbVEVO", "01:50"),
       Candidate("Ab - Cd (Official Video)", "Fan", "01:45"),
       Candidate("Xy Zq", "Xy", "02:00"),
       Candidate("Ab - Cd", "Ab Music", "01:45"),
       Candidate("Ab - Cd (Official Video)", "Cd Records", "01:50") >>
DedupLists == ListsUpTo(DedupPool, MaxDedupLen)

\* inputs of _find_best_spotify_match: tracks as the provider's API gives them
\* (name, popularity) and as search_track formats them (title, no popularity)
MatchCandidates ==
    << Candidate("Ab - Cd", "AbVEVO", "3:45"),
       Candidate("Ab - Cd", "Fan", "4:00"),
       Candidate("Ab - Cd", "Fan", "Unknown") >>
MatchTracks ==
    << [name |-> Chars("Cd"), artists |-> <<Chars("Ab")>>, duration_ms |-> 225000, popularity |-> 0],
       [name |-> Chars("Ef"), artists |-> <<Chars("Zz")>>, duration_ms |-> 300000, popularity |-> 100],
       [title |-> Chars("Cd"), artist |-> Chars("Ab"), artists |-> <<Chars("Ab")>>, duration_ms |-> 226000],
       [name |-> Chars("Gh"), artists |-> <<Chars("Zz")>>, popularity |-> 50],
       [name |-> <<>>, artists |-> <<>>, duration_ms |-> 240000, popularity |-> 100],
       [duration_ms |-> 100000, popularity |-> 100],
       [title |-> Chars("Cd"), artist |-> Chars("Ab"), artists |-> <<Chars("Ab")>>, duration_ms |-> 233000],
       [title |-> Chars("Cd"), artist |-> Chars("Ab"), artists |-> <<Chars("Ab")>>, duration_ms |-> 0],
       [title |-> Chars("Cd"), artist |-> Chars("Ab"), artists |-> <<Chars("Ab")>>, duration_ms |-> 300000] >>
MatchLists == ListsUpTo(MatchTracks, MaxTracks)

\* durations in seconds that the two scoring paths compare; 0 is the duration
\* of a candidate or a track that has none
ScoredSeconds == <<0, 30, 100, 200, 215, 225, 229, 233, 240, 250, 300>>

\* inputs of _ensure_artist_variety for the artist query "ab": thirteen songs,
\* one of them under four titles; the lists take every stride-th candidate of
\* the pool from a starting point, going round
VarietyPool ==
    << Candidate("Ab - Cd", "AbVEVO", "03:45"),
       Candidate("Ab - Cd (Official Video)", "Fan", "03:45"),
       Candidate("Ab - Ef", "Fan", "03:00"),
       Candidate("Ab - Gh", "AbVEVO", "03:10"),
       Candidate("Ab - Ij", "Fan", "03:20"),
       Candidate("Ab - Kl", "Fan", "03:30"),
       Candidate("Ab - Mn", "Ab Music", "03:40"),
       Candidate("Ab - Op", "Fan", "03:50"),
       Candidate("Ab - Qr", "Fan", "04:00"),
       Candidate("Ab - St", "Fan", "04:10"),
       Candidate("Ab - Uv", "Fan", "04:20"),
       Candidate("Ab - Wx", "Fan", "04:30"),
       Candidate("ab - cd", "Fan", "03:46"),
       Candidate("Ab - Cde", "Cd Records", "03:47"),
       Candidate("Ab - Cdef", "Fan", "03:48") >>
VarietyStrides == <<1, 2, 4>>
VarietyList(n, start, stride) ==
    [k \in 1..n |-> VarietyPool[((start + (k - 1) * stride) % Len(VarietyPool)) + 1]] \o <<>>

(***************************************************************************)
(* Initial state of the download tab (DownloadTab.__init__), shared by     *)
(* every specification below                                               *)
(***************************************************************************)
NoFile == [downloaded |-> FALSE]
WidgetsInit ==
    /\ pc = "idle"
    /\ query = <<>>
    /\ filtered = <<>>
    /\ raw_youtube_results = {}
    /\ cand_i = 0
    /\ search_queries = <<>>
    /\ spotify_calls = <<>>
    /\ youtube_results = <<>>
    /\ processed_results = <<>>
    /\ selected_youtube_index = -1
    /\ rows = <<>>
    /\ file_tags = NoFile
widgets == <<pc, query, filtered, raw_youtube_results, cand_i, search_queries, spotify_calls, youtube_results, processed_results,
             selected_youtube_index, rows, file_tags>>
\* SpotifySearch.__init__ with get_spotify_cache(): no cache file yet
NoEntries == <<>>
CacheInit ==
    /\ memory_cache = NoEntries
    /\ cache_file = NoEntries
    /\ now = 0
    /\ provider = "folding"
    /\ api_responses = NoEntries
spotify == <<memory_cache, cache_file, now, provider, api_responses>>
TabInit == WidgetsInit /\ CacheInit
tab == <<widgets, spotify>>

(***************************************************************************)
(* utils/spotify_cache.py: SpotifyCache, and SpotifySearch.search_track    *)
(* in front of the provider's API                                          *)
(***************************************************************************)
cache_duration == 3600
\* A variant that C24 has to tell from the code's: the query as it was typed
NormalizeQuery_AsTyped(search_text) == search_text \o <<>>
_normalize_query(search_text) == Strip(Lower(search_text))
\* A variant that C23 has to tell from the code's: the key without the limit
CacheKey_AnyLimit(search_text, limit) == <<_normalize_query(search_text), limit - limit>>
\* the key is the md5 of f"{normalized}|limit={limit}"; the pair stands for it,
\* as if no two pairs had the same hash
_get_cache_key(search_text, limit) == <<_normalize_query(search_text), limit>>
CacheEntry(search_text, results, timestamp, limit) ==
    [query |-> search_text, results |-> results, timestamp |-> timestamp, limit |-> limit]
\* A variant that C30 has to tell from the code's: an entry still good at the
\* age of cache_duration
NotExpired_AtDuration(entry, current_time) == current_time - Get(entry, "timestamp", 0) <= cache_duration
\* current_time - entry.get('timestamp', 0) < self.cache_duration
NotExpired(entry, current_time) == current_time - Get(entry, "timestamp", 0) < cache_duration
\* the dictionary without the keys in gone, and with one entry set
Without(entries, gone) == [k \in (DOMAIN entries) \ gone |-> entries[k]]
WithEntry(entries, key, entry) ==
    [k \in (DOMAIN entries) \cup {key} |-> IF k = key THEN entry ELSE entries[k]]
ExpiredKeys(entries, current_time) == {k \in DOMAIN entries : ~NotExpired(entries[k], current_time)}
\* _save_cache writes, and _load_cache reads, the entries that have not expired
NonExpired(entries, current_time) == Without(entries, ExpiredKeys(entries, current_time))
_load_cache(disk_cache, current_time) == NonExpired(disk_cache, current_time)
_save_cache(entries, current_time) == NonExpired(entries, current_time)
\* get: what it returns (results, or None when found is false), whether it
\* found an expired entry ("[CACHE EXPIRED]"), and memory_cache after it
SpotifyCache_get(entries, search_text, limit, current_time) ==
    LET cache_key == _get_cache_key(search_text, limit)
    IN IF cache_key \notin DOMAIN entries
       THEN [found |-> FALSE, expired |-> FALSE, entries |-> entries]
       ELSE IF NotExpired(entries[cache_key], current_time)
       THEN [found |-> TRUE, expired |-> FALSE, results |-> Get(entries[cache_key], "results", <<>>),
             entries |-> entries]
       ELSE [found |-> FALSE, expired |-> TRUE, entries |-> Without(entries, {cache_key})]
\* put: memory_cache after it; the file is written when the entries are a
\* multiple of ten
SpotifyCache_put(entries, search_text, results, limit, current_time) ==
    WithEntry(entries, _get_cache_key(search_text, limit),
              CacheEntry(search_text, results, current_time, limit))
SavedAfterPut(entries, disk_cache, current_time) ==
    IF Cardinality(DOMAIN entries) % 10 = 0 THEN _save_cache(entries, current_time) ELSE disk_cache

\* the queries and limits search_track is called with
CacheQueries == <<Chars("ab cd"), Chars(" AB cd")>>
CacheLimits == <<1, 3>>
\* The provider is a fixed function of the query text and the limit.  The
\* "folding" one takes no notice of letter case and surrounding blanks; the
\* "exact" one answers the query in capitals with other tracks.
Providers == {"folding", "exact"}
CacheItems ==
    << [id |-> Chars("s1"), name |-> Chars("Cd"), artists |-> <<Chars("Ab")>>,
        album |-> [name |-> Chars("Lp"), images |-> <<>>], duration_ms |-> 225000],
       [id |-> Chars("s2"), name |-> Chars("Cd"), artists |-> <<Chars("Zz")>>,
        album |-> [name |-> Chars("Lp"), images |-> <<>>], duration_ms |-> 226000],
       [id |-> Chars("s3"), name |-> Chars("Ef"), artists |-> <<Chars("Zz")>>,
        album |-> [name |-> Chars("Ep"), images |-> <<>>], duration_ms |-> 300000] >>
ProviderItems(how, search_text) ==
    IF how = "exact" /\ search_text # Strip(Lower(search_text))
    THEN <<CacheItems[3], CacheItems[1]>>
    ELSE CacheItems
\* self.spotify.search(q=query, type='track', limit=limit), formatted
spotify_search(how, search_text, limit) == search_track(ProviderItems(how, search_text), limit)
\* nine entries of other searches, in the cache file of an earlier run
OtherEntries(timestamp) ==
    [k \in {<<Chars("other"), n>> : n \in 1..9} |-> CacheEntry(Chars("other"), <<>>, timestamp, k[2])]

(***************************************************************************)
(* AttributeError: a field that is None where the code calls a method of   *)
(* str on it                                                               *)
(***************************************************************************)
\* result.get(key, '') is None: the key is there and its value is None
IsNone(result, key) == key \in DOMAIN result /\ result[key] = None
\* _is_valid_song: result.get('title', '').lower()
IsValidSongRaises(result) == IsNone(result, "title")
\* _is_better_source: result1.get('channel', '').lower(), result2.get('channel', '').lower()
IsBetterSourceRaises(result1, result2) == IsNone(result1, "channel") \/ IsNone(result2, "channel")
\* _remove_duplicates calls _is_better_source for the first entry that result duplicates
RECURSIVE RemoveDuplicatesRaises(_, _, _)
RemoveDuplicatesRaises(results, n, unique_results) ==
    IF n > Len(results) THEN FALSE
    ELSE LET dups == {i \in 1..Len(unique_results) : IsDuplicate(results[n], unique_results[i])}
         IN IF dups # {} /\ IsBetterSourceRaises(results[n], unique_results[SetMin(dups)]) THEN TRUE
            ELSE RemoveDuplicatesRaises(results, n + 1, DedupAmong(unique_results, results[n], dups))
\* _ensure_artist_variety: _score_result_quality takes title and channel in
\* lower case of every result, when there are more than 5
EnsureVarietyRaises(results) ==
    Len(results) > 5 /\ \E k \in 1..Len(results) : IsNone(results[k], "channel")
FilterRaisesAfterValid(valid_results, search_query) ==
    \/ RemoveDuplicatesRaises(valid_results, 1, <<>>)
    \/ /\ _is_artist_search(search_query)
       /\ EnsureVarietyRaises(_remove_duplicates(valid_results, search_query))
FilterRaises(results, search_query) ==
    \/ \E k \in 1..Len(results) : IsValidSongRaises(results[k])
    \/ FilterRaisesAfterValid(SelectSeq(results, LAMBDA r : _is_valid_song(r, search_query,
                                                                         _is_artist_search(search_query))),
                              search_query)
\* should_include_result: clean_search_query(title) begins with query.lower()
ShouldIncludeRaises(youtube_result) == IsNone(youtube_result, "title")

(***************************************************************************)
(* SpecInclude: should_include_result applied to every candidate, track    *)
(* and query of the pools                                                  *)
(***************************************************************************)
InitInclude ==
    /\ TabInit
    /\ \E y \in 1..Len(IncludeCandidates), t \in 1..Len(IncludeTracks), q \in 1..Len(IncludeQueries) :
          probe = [ op |-> "given",
                    youtube_result |-> IncludeCandidates[y],
                    spotify_track |-> IncludeTracks[t],
                    search_query |-> IncludeQueries[q] ]
ApplyShouldInclude ==
    /\ probe.op = "given"
    /\ probe' = IF ShouldIncludeRaises(probe.youtube_result)
                THEN [ op |-> "should_include_result raised",
                       youtube_result |-> probe.youtube_result,
                       spotify_track |-> probe.spotify_track,
                       search_query |-> probe.search_query,
                       error |-> "AttributeError" ]
                ELSE [ op |-> "should_include_result",
                       youtube_result |-> probe.youtube_result,
                       spotify_track |-> probe.spotify_track,
                       search_query |-> probe.search_query,
                       out |-> should_include_result(probe.youtube_result, probe.spotify_track,
                                                     probe.search_query) ]
    /\ UNCHANGED tab
\* calculate_spotify_match_confidence with its three scores; should_include_result
\* calls it when there is a track
ApplyMatchConfidence ==
    /\ probe.op = "given"
    /\ Truthy(probe.spotify_track)
    /\ probe' = [ op |-> "calculate_spotify_match_confidence",
                  youtube_result |-> probe.youtube_result,
                  spotify_track |-> probe.spotify_track,
                  search_query |-> probe.search_query,
                  title_score |-> _calculate_title_similarity(Get(probe.youtube_result, "title", <<>>),
                                                              Get(probe.spotify_track, "name", <<>>),
                                                              Get(probe.spotify_track, "artists", <<>>)),
                  duration_score |-> _calculate_duration_similarity(
                                         _parse_duration(Get(probe.youtube_result, "duration", <<>>)),
                                         Get(probe.spotify_track, "duration_ms", 0) \div 1000),
                  artist_score |-> _calculate_artist_similarity(Get(probe.youtube_result, "title", <<>>),
                                                                Get(probe.spotify_track, "artists", <<>>)),
                  out |-> calculate_spotify_match_confidence(probe.youtube_result, probe.spotify_track) ]
    /\ UNCHANGED tab
NextInclude == ApplyShouldInclude \/ ApplyMatchConfidence
SpecInclude == InitInclude /\ [][NextInclude]_vars

(***************************************************************************)
(* SpecFilter: _is_valid_song and filter_youtube_results applied to the     *)
(* candidates and lists of the pools                                       *)
(***************************************************************************)
InitFilter ==
    /\ TabInit
    /\ \/ \E c \in 1..Len(FilterCandidates), q \in 1..Len(FilterQueries), relaxed \in BOOLEAN :
             probe = [ op |-> "given_candidate", result |-> FilterCandidates[c],
                       search_query |-> FilterQueries[q], relaxed |-> relaxed ]
       \/ \E l \in 1..Len(FilterLists), q \in 1..Len(FilterQueries) :
             probe = [ op |-> "given_list", results |-> FilterLists[l], search_query |-> FilterQueries[q] ]
       \/ \E d \in 1..Len(DurationInputs) :
             probe = [ op |-> "given_duration", duration_str |-> DurationInputs[d] ]
ApplyIsValidSong ==
    /\ probe.op = "given_candidate"
    /\ probe' = [ op |-> "_is_valid_song", result |-> probe.result,
                  search_query |-> probe.search_query, relaxed |-> probe.relaxed,
                  out |-> _is_valid_song(probe.result, probe.search_query, probe.relaxed) ]
    /\ UNCHANGED tab
ApplyFilter ==
    /\ probe.op = "given_list"
    /\ probe' = IF FilterRaises(probe.results, probe.search_query)
                THEN [ op |-> "filter_youtube_results raised", results |-> probe.results,
                       search_query |-> probe.search_query, error |-> "AttributeError" ]
                ELSE [ op |-> "filter_youtube_results", results |-> probe.results,
                       search_query |-> probe.search_query,
                       out |-> filter_youtube_results(probe.results, probe.search_query) ]
    /\ UNCHANGED tab
ApplyParseDuration ==
    /\ probe.op = "given_duration"
    /\ probe' = [ op |-> "_parse_duration", duration_str |-> probe.duration_str,
                  out |-> _parse_duration(probe.duration_str) ]
    /\ UNCHANGED tab
NextFilter == ApplyIsValidSong \/ ApplyFilter \/ ApplyParseDuration
SpecFilter == InitFilter /\ [][NextFilter]_vars

(***************************************************************************)
(* SpecMalformed: filter_youtube_results and should_include_result applied *)
(* to candidates with absent, None, empty and unparseable fields           *)
(***************************************************************************)
InitMalformed ==
    /\ TabInit
    /\ \/ \E l \in 1..Len(MalformedLists), q \in 1..Len(MalformedQueries) :
             probe = [ op |-> "given_list", results |-> MalformedLists[l],
                       search_query |-> MalformedQueries[q] ]
       \/ \E y \in 1..Len(MalformedCandidates), t \in 1..Len(MalformedTracks),
              q \in 1..Len(MalformedQueries) :
             probe = [ op |-> "given",
                       youtube_result |-> MalformedCandidates[y],
                       spotify_track |-> MalformedTracks[t],
                       search_query |-> MalformedQueries[q] ]
NextMalformed == ApplyFilter \/ ApplyShouldInclude
SpecMalformed == InitMalformed /\ [][NextMalformed]_vars

(***************************************************************************)
(* SpecDedup: _remove_duplicates applied to every list of the pool, and    *)
(* then to its own output                                                  *)
(***************************************************************************)
InitDedup ==
    /\ TabInit
    /\ \E l \in 1..Len(DedupLists) :
          probe = [op |-> "given_list", results |-> DedupLists[l], search_query |-> Chars("ab cd")]
ApplyRemoveDuplicates ==
    /\ probe.op = "given_list"
    /\ probe' = [ op |-> "_remove_duplicates", results |-> probe.results, search_query |-> probe.search_query,
                  out |-> _remove_duplicates(probe.results, probe.search_query) ]
    /\ UNCHANGED tab
ApplyRemoveDuplicatesAgain ==
    /\ probe.op = "_remove_duplicates"
    /\ probe' = [ op |-> "_remove_duplicates twice", results |-> probe.results, search_query |-> probe.search_query,
                  out |-> probe.out,
                  again |-> _remove_duplicates(probe.out, probe.search_query) ]
    /\ UNCHANGED tab
NextDedup == ApplyRemoveDuplicates \/ ApplyRemoveDuplicatesAgain
SpecDedup == InitDedup /\ [][NextDedup]_vars

(***************************************************************************)
(* SpecMatch: _find_best_spotify_match applied to every candidate and      *)
(* every list of tracks of the pools                                       *)
(***************************************************************************)
InitMatch ==
    /\ TabInit
    /\ \E y \in 1..Len(MatchCandidates), l \in 1..Len(MatchLists) :
          probe = [ op |-> "given_tracks",
                    youtube_result |-> MatchCandidates[y],
                    spotify_results |-> MatchLists[l] ]
ApplyFindBestMatch ==
    /\ probe.op = "given_tracks"
    /\ probe' = [ op |-> "_find_best_spotify_match",
                  youtube_result |-> probe.youtube_result,
                  spotify_results |-> probe.spotify_results,
                  out |-> _find_best_spotify_match(probe.spotify_results, probe.youtube_result) ]
    /\ UNCHANGED tab
NextMatch == ApplyFindBestMatch
SpecMatch == InitMatch /\ [][NextMatch]_vars

(***************************************************************************)
(* SpecDuration: the duration comparisons of the two scoring paths applied *)
(* to every pair of durations of the pool                                  *)
(***************************************************************************)
InitDuration ==
    /\ TabInit
    /\ \E y \in 1..Len(ScoredSeconds), t \in 1..Len(ScoredSeconds) :
          probe = [ op |-> "given_durations",
                    youtube_duration |-> ScoredSeconds[y],
                    spotify_duration |-> ScoredSeconds[t] ]
\* the comparison of calculate_spotify_match_confidence
ApplyDurationSimilarity ==
    /\ probe.op = "given_durations"
    /\ probe' = [ op |-> "_calculate_duration_similarity",
                  youtube_duration |-> probe.youtube_duration,
                  spotify_duration |-> probe.spotify_duration,
                  out |-> _calculate_duration_similarity(probe.youtube_duration, probe.spotify_duration) ]
    /\ UNCHANGED tab
\* the comparison in the loop of _find_best_spotify_match
ApplyDurationMatch ==
    /\ probe.op = "given_durations"
    /\ probe' = [ op |-> "duration matching",
                  youtube_duration |-> probe.youtube_duration,
                  spotify_duration |-> probe.spotify_duration,
                  out |-> DurationMatchScore(probe.spotify_duration, probe.youtube_duration) ]
    /\ UNCHANGED tab
NextDuration == ApplyDurationSimilarity \/ ApplyDurationMatch
SpecDuration == InitDuration /\ [][NextDuration]_vars

(***************************************************************************)
(* SpecVariety: _ensure_artist_variety applied to lists of six candidates   *)
(* and more, for an artist query                                           *)
(***************************************************************************)
InitVariety ==
    /\ TabInit
    /\ \E n \in 6..MaxVarietyLen, start \in 1..Len(VarietyPool), j \in 1..Len(VarietyStrides) :
          probe = [ op |-> "given_artist_results",
                    results |-> VarietyList(n, start, VarietyStrides[j]),
                    search_query |-> Chars("ab") ]
ApplyEnsureArtistVariety ==
    /\ probe.op = "given_artist_results"
    /\ probe' = [ op |-> "_ensure_artist_variety", results |-> probe.results, search_query |-> probe.search_query,
                  out |-> _ensure_artist_variety(probe.results, probe.search_query) ]
    /\ UNCHANGED tab
NextVariety == ApplyEnsureArtistVariety
SpecVariety == InitVariety /\ [][NextVariety]_vars

(***************************************************************************)
(* SpecTopFive: filter_youtube_results applied to lists of six candidates  *)
(* and more, for a song query and for an artist query                      *)
(***************************************************************************)
TopFiveStarts == <<1, 7, 13>>
TopFiveStrides == <<1, 2>>
\* a query for a song and a query for an artist
TopFiveQueries == <<Chars("ab - cd"), Chars("ab")>>
\* what a list starts with: nothing more, or a candidate too short for a song
TopFiveLeads == << <<>>, <<Candidate("Ab - Yz", "Fan", "00:20")>> >>

InitTopFive ==
    /\ TabInit
    /\ \E n \in 6..MaxVarietyLen, i \in 1..Len(TopFiveStarts), j \in 1..Len(TopFiveStrides),
          q \in 1..Len(TopFiveQueries), lead \in 1..Len(TopFiveLeads) :
          probe = [ op |-> "given_list",
                    results |-> TopFiveLeads[lead] \o VarietyList(n, TopFiveStarts[i], TopFiveStrides[j]),
                    search_query |-> TopFiveQueries[q] ]

NextTopFive == ApplyFilter

SpecTopFive == InitTopFive /\ [][NextTopFive]_vars

(***************************************************************************)
(* SpecCache: calls of search_track and of the cache's get and              *)
(* clear_expired, the clock moving on, and the program starting again      *)
(***************************************************************************)
TickLength == cache_duration \div 2
InitCache ==
    /\ WidgetsInit
    /\ now = 0
    /\ provider \in Providers
    /\ cache_file \in {NoEntries, OtherEntries(0)}
    /\ memory_cache = _load_cache(cache_file, now)
    /\ api_responses = NoEntries
    /\ probe = [op |-> "__init__"]
\* search_track(query, limit), the provider being available
SearchTrackWith(search_text, limit, cached) ==
    IF cached.found
    THEN /\ probe' = [ op |-> "search_track", query |-> search_text, limit |-> limit,
                       api_call |-> FALSE, out |-> cached.results ]
         /\ UNCHANGED <<memory_cache, cache_file, api_responses>>
    ELSE LET formatted_results == spotify_search(provider, search_text, limit)
             entries == SpotifyCache_put(cached.entries, search_text, formatted_results, limit, now)
         IN /\ probe' = [ op |-> "search_track", query |-> search_text, limit |-> limit,
                          api_call |-> TRUE, out |-> formatted_results ]
            /\ memory_cache' = entries
            /\ cache_file' = SavedAfterPut(entries, cache_file, now)
            /\ api_responses' = WithEntry(api_responses, <<Strip(Lower(search_text)), limit>>,
                                          [results |-> formatted_results, time |-> now])
SearchTrack ==
    /\ \E q \in 1..Len(CacheQueries), l \in 1..Len(CacheLimits) :
          SearchTrackWith(CacheQueries[q], CacheLimits[l],
                          SpotifyCache_get(memory_cache, CacheQueries[q], CacheLimits[l], now))
    /\ UNCHANGED <<widgets, now, provider>>
\* cache.get(query, limit), as the cache test calls it
CacheGet ==
    /\ \E q \in 1..Len(CacheQueries), l \in 1..Len(CacheLimits) :
          LET cached == SpotifyCache_get(memory_cache, CacheQueries[q], CacheLimits[l], now)
          IN /\ probe' = IF cached.found
                         THEN [ op |-> "get", query |-> CacheQueries[q], limit |-> CacheLimits[l],
                                found |-> TRUE, expired |-> FALSE, out |-> cached.results ]
                         ELSE [ op |-> "get", query |-> CacheQueries[q], limit |-> CacheLimits[l],
                                found |-> FALSE, expired |-> cached.expired, out |-> None ]
             /\ memory_cache' = cached.entries
    /\ UNCHANGED <<widgets, cache_file, now, provider, api_responses>>
\* clear_expired
ClearExpired ==
    /\ memory_cache' = Without(memory_cache, ExpiredKeys(memory_cache, now))
    /\ cache_file' = IF ExpiredKeys(memory_cache, now) # {}
                     THEN _save_cache(memory_cache', now) ELSE cache_file
    /\ probe' = [op |-> "clear_expired"]
    /\ UNCHANGED <<widgets, now, provider, api_responses>>
\* the program ends and starts again: __del__ saves the cache when it runs,
\* __init__ loads the file
Reload ==
    /\ \E saved \in BOOLEAN :
          cache_file' = IF saved THEN _save_cache(memory_cache, now) ELSE cache_file
    /\ memory_cache' = _load_cache(cache_file', now)
    /\ api_responses' = NoEntries
    /\ probe' = [op |-> "__init__"]
    /\ UNCHANGED <<widgets, now, provider>>
\* time passes
Tick ==
    /\ now < MaxTicks * TickLength
    /\ now' = now + TickLength
    /\ probe' = [op |-> "time"]
    /\ UNCHANGED <<widgets, memory_cache, cache_file, provider, api_responses>>
NextCache == SearchTrack \/ CacheGet \/ ClearExpired \/ Reload \/ Tick
SpecCache == InitCache /\ [][NextCache]_vars

(***************************************************************************)
(* Spec: the download tab.  The user searches, selects a row and downloads *)
(* it; yt-dlp, the metadata provider, the image server and the tag library *)
(* answer as the environment chooses.  _perform_search runs on the GUI     *)
(* thread, so no other handler runs while pc = "matching"; the download    *)
(* worker takes its arguments when it is started and shares nothing with   *)
(* the tab, so its run is part of OnDownloadSelected.  file_tags and probe *)
(* observe the current result list: a new search starts them afresh.       *)
(***************************************************************************)
\* what the user types in the search box
Inputs == <<Chars(""), Chars("  "), Chars("ab cd"), Chars(" xy zq")>>
\* entries of yt-dlp (duration in seconds); the last one has no id
EntryPool ==
    << [id |-> Chars("a1"), title |-> Chars("Ab - Cd"), uploader |-> Chars("AbVEVO"), duration |-> 225],
       [id |-> Chars("a2"), title |-> Chars("Ab - Cd"), uploader |-> Chars("Fan"), duration |-> 20],
       [id |-> Chars("a3"), title |-> Chars("Xy Zq"), uploader |-> Chars("Xy"), duration |-> 200],
       [id |-> Chars("a4"), title |-> Chars("Ab - Cd (Official Video)"), uploader |-> Chars("Fan"), duration |-> 605],
       [id |-> Chars("a5"), title |-> Chars("Ab - Ef"), uploader |-> Chars("Fan"), duration |-> 230],
       [title |-> Chars("Ab - Cd"), uploader |-> Chars("Fan"), duration |-> 225] >>
RawLists == ListsUpTo(EntryPool, MaxRaw)
\* items of the metadata provider's search
Image(url, width) == [url |-> Chars(url), width |-> width]
ItemPool ==
    << [id |-> Chars("s1"), name |-> Chars("Cd"), artists |-> <<Chars("Ab")>>, popularity |-> 90,
        album |-> [name |-> Chars("Lp"), release_date |-> Chars("2020"),
                   images |-> <<Image("u640", 640), Image("u64", 64)>>],
        duration_ms |-> 225000],
       [id |-> Chars("s2"), name |-> Chars("Cd"), artists |-> <<Chars("Zz")>>, popularity |-> 50,
        album |-> [name |-> Chars("Lp"), images |-> <<>>],
        duration_ms |-> 226000],
       [id |-> Chars("s3"), name |-> Chars("Ef"), artists |-> <<Chars("Zz")>>, popularity |-> 99,
        album |-> [name |-> Chars("Ep"), images |-> <<Image("v300", 300)>>],
        duration_ms |-> 300000] >>
Answers == ListsUpTo(ItemPool, MaxTracks)
\* what fetching a cover does, and what the tag library and the image server do
Fetches == {"loaded", "failed", "error"}

\* _perform_search up to its loop, for the query typed and yt-dlp's answer raw:
\* filtered_youtube_results, and the search queries for its first result
WithQueries(raw, filtered_youtube_results) ==
    [ raw |-> raw,
      filtered |-> filtered_youtube_results,
      queries |-> IF filtered_youtube_results = <<>> THEN <<>>
                  ELSE SearchQueries(filtered_youtube_results[1]) ]
\* A variant that C16 has to tell from the code's: the loop of _perform_search
\* run over the raw results
FilteredOf_Unfiltered(search_query, raw) == WithQueries(raw, TopFive(raw))
FilteredOf(search_query, raw) ==
    WithQueries(raw, TopFive(filter_youtube_results(raw, search_query)))
FilteredFor(search_query, entries) == FilteredOf(search_query, YouTubeSearch_search(entries, 15))
\* the searches of the pools: Searches[t][r] for input t and answer r
Searches ==
    [t \in 1..Len(Inputs) |->
        IF Strip(Inputs[t]) = <<>> THEN <<>>
        ELSE [r \in 1..Len(RawLists) |-> FilteredFor(Strip(Inputs[t]), RawLists[r])] \o <<>>] \o <<>>

\* should_include_result for the candidates, tracks and queries of the pools,
\* computed once: IncludeResults[y][t][q]
FormattedEntries == YouTubeSearch_search(EntryPool, Len(EntryPool))
FormattedTracks == <<NoneDict>> \o search_track(ItemPool, Len(ItemPool))
StrippedInputs == [t \in 1..Len(Inputs) |-> Strip(Inputs[t])] \o <<>>
IncludeResults ==
    [y \in 1..Len(FormattedEntries) |->
        [t \in 1..Len(FormattedTracks) |->
            [q \in 1..Len(StrippedInputs) |->
                should_include_result(FormattedEntries[y], FormattedTracks[t], StrippedInputs[q])] \o <<>>] \o <<>>] \o <<>>
InPool(pool, v) == \E k \in 1..Len(pool) : pool[k] = v
IncludeResult(youtube_result, spotify_track, search_query) ==
    IF /\ InPool(FormattedEntries, youtube_result)
       /\ InPool(FormattedTracks, spotify_track)
       /\ InPool(StrippedInputs, search_query)
    THEN IncludeResults[IndexIn(FormattedEntries, youtube_result)][IndexIn(FormattedTracks, spotify_track)][IndexIn(StrippedInputs, search_query)]
    ELSE should_include_result(youtube_result, spotify_track, search_query)

NoCall == [op |-> "none"]
Init == TabInit /\ probe = NoCall

\* _on_search and _perform_search up to the loop over the filtered results
StartSearch(search_query, start) ==
    /\ youtube_results' = <<>>
    /\ selected_youtube_index' = -1
    /\ rows' = <<>>
    /\ file_tags' = NoFile
    /\ probe' = NoCall
    /\ IF start.filtered = <<>>
       THEN UNCHANGED <<pc, query, filtered, raw_youtube_results, cand_i, search_queries, spotify_calls, processed_results>>
       ELSE /\ processed_results' = <<>>
            /\ pc' = "matching"
            /\ query' = search_query
            /\ filtered' = start.filtered
            /\ raw_youtube_results' = SeqToSet(start.raw)
            /\ cand_i' = 1
            /\ search_queries' = start.queries
            /\ spotify_calls' = <<>>
\* with nothing typed _on_search warns and returns
OnSearch ==
    /\ pc = "idle"
    /\ \E t \in 1..Len(Inputs) :
          IF Strip(Inputs[t]) = <<>> THEN UNCHANGED vars
          ELSE \E r \in 1..Len(RawLists) : StartSearch(Strip(Inputs[t]), Searches[t][r])
    /\ UNCHANGED spotify

\* the end of _perform_search: the rows are built unless nothing was included
HasCover(processed_result) == WidgetCoverUrl(processed_result)[1] = "url"
EndSearch(ys, ps) ==
    /\ youtube_results' = ys
    /\ processed_results' = ps
    /\ pc' = "idle"
    /\ query' = <<>>
    /\ filtered' = <<>>
    /\ raw_youtube_results' = {}
    /\ cand_i' = 0
    /\ search_queries' = <<>>
    /\ spotify_calls' = <<>>
    /\ IF ys = <<>> THEN rows' = <<>>
       ELSE \E fetches \in [1..Len(ps) -> Fetches] :
               /\ \A k \in 1..Len(ps) : ~HasCover(ps[k]) => fetches[k] = "loaded"
               /\ rows' = _populate_results(ps, fetches)
    /\ UNCHANGED <<selected_youtube_index, file_tags>>
\* the end of one round of the loop, ys and ps being the lists after it
NextCandidate(ys, ps) ==
    IF cand_i < Len(filtered) /\ Len(ps) < 10
    THEN /\ youtube_results' = ys
         /\ processed_results' = ps
         /\ cand_i' = cand_i + 1
         /\ search_queries' = SearchQueries(filtered[cand_i + 1])
         /\ UNCHANGED <<pc, query, filtered, raw_youtube_results, selected_youtube_index, rows, file_tags>>
    ELSE EndSearch(ys, ps)
ProcessedResult(final_youtube_result, spotify_track, better_youtube, out) ==
    [ youtube_result |-> final_youtube_result,
      spotify_track |-> spotify_track,
      reason |-> out[2],
      confidence |-> out[3],
      improved_match |-> better_youtube # NoneDict ]
Include(final_youtube_result, spotify_track, better_youtube, out) ==
    /\ probe' = [ op |-> "should_include_result", youtube_result |-> final_youtube_result,
                  spotify_track |-> spotify_track, search_query |-> query, out |-> out ]
    /\ IF out[1]
       THEN NextCandidate(Append(youtube_results, final_youtube_result),
                          Append(processed_results,
                                 ProcessedResult(final_youtube_result, spotify_track, better_youtube, out)))
       ELSE NextCandidate(youtube_results, processed_results)
Decide(final_youtube_result, spotify_track, better_youtube) ==
    Include(final_youtube_result, spotify_track, better_youtube,
            IncludeResult(final_youtube_result, spotify_track, query))
\* _search_spotify_for_youtube_result has returned (spotify_track, better_youtube)
Returned(result, spotify_track, better_youtube) ==
    Decide(IF better_youtube # NoneDict THEN better_youtube ELSE result, spotify_track, better_youtube)
\* step is what one search strategy came to
AfterQuery(result, step) ==
    IF step[1] = "return" THEN Returned(result, step[2], step[3])
    ELSE IF Len(search_queries) > 1
    THEN /\ search_queries' = Tail(search_queries)
         /\ UNCHANGED <<pc, query, filtered, raw_youtube_results, cand_i, youtube_results, processed_results,
                        selected_youtube_index, rows, file_tags, probe>>
    ELSE Returned(result, NoneDict, NoneDict)
\* the provider has answered the first of search_queries with spotify_results
Answered(result, spotify_results) ==
    IF spotify_results = <<>> THEN AfterQuery(result, <<"next">>)
    ELSE IF AsksBetter(result, spotify_results)
    THEN \E b \in 1..Len(RawLists) :
            AfterQuery(result, TryQuery(result, spotify_results, YouTubeSearch_search(RawLists[b], 5)))
    ELSE AfterQuery(result, TryQuery(result, spotify_results, <<>>))
\* one call of spotify.search_track in the loop of _search_spotify_for_youtube_result,
\* and everything _perform_search does until the next one
Call(spotify_results) ==
    [ candidate |-> cand_i, youtube_result |-> filtered[cand_i],
      query |-> Head(search_queries), tracks |-> SeqToSet(spotify_results) ]
Calls(spotify_results) ==
    Append(IF spotify_calls # <<>> /\ spotify_calls[1].candidate = cand_i THEN spotify_calls ELSE <<>>,
           Call(spotify_results))
Asked(spotify_results) ==
    /\ Answered(filtered[cand_i], spotify_results)
    /\ spotify_calls' = IF pc' = "matching" THEN Calls(spotify_results) ELSE <<>>
SpotifyStep ==
    /\ pc = "matching"
    /\ \E a \in 1..Len(Answers) : Asked(search_track(Answers[a], 3))
    /\ UNCHANGED spotify

\* a click on row i (rows are numbered from 0)
SelectResult ==
    /\ pc = "idle"
    /\ \E i \in 0..(Len(rows) - 1) :
          /\ ~(i < 0 \/ i >= Len(processed_results))
          /\ selected_youtube_index' = i
    /\ UNCHANGED <<pc, query, filtered, raw_youtube_results, cand_i, search_queries, spotify_calls, youtube_results, processed_results,
                   rows, file_tags, probe>>
    /\ UNCHANGED spotify

\* _on_back_to_search
OnBackToSearch ==
    /\ pc = "idle"
    /\ youtube_results' = <<>>
    /\ selected_youtube_index' = -1
    /\ rows' = <<>>
    /\ UNCHANGED <<pc, query, filtered, raw_youtube_results, cand_i, search_queries, spotify_calls, processed_results, file_tags, probe>>
    /\ UNCHANGED spotify

\* _on_download_selected, _start_download and the worker's run.  created: the
\* download and the conversion left a file.
Downloaded(processed_result, song_info, created, text_frames, art) ==
    [ downloaded |-> created, entry |-> processed_result, song_info |-> song_info,
      art |-> art, tags |-> IF created THEN download(song_info, text_frames, art)
                            ELSE [saved |-> FALSE, frames |-> <<>>, album_art |-> None] ]
OnDownloadSelected ==
    /\ pc = "idle"
    /\ IF selected_youtube_index < 0 \/ selected_youtube_index >= Len(processed_results)
       THEN UNCHANGED file_tags
       ELSE \E created \in BOOLEAN, text_frames \in {"reject", "accept"}, art \in {"loaded", "failed"} :
               file_tags' = Downloaded(processed_results[selected_youtube_index + 1],
                                       SelectedMetadata(processed_results[selected_youtube_index + 1]),
                                       created, text_frames, art)
    /\ UNCHANGED <<pc, query, filtered, raw_youtube_results, cand_i, search_queries, spotify_calls, youtube_results, processed_results,
                   selected_youtube_index, rows, probe>>
    /\ UNCHANGED spotify

Next == OnSearch \/ SpotifyStep \/ SelectResult \/ OnBackToSearch \/ OnDownloadSelected
Spec == Init /\ [][Next]_vars

(***************************************************************************)
(* Properties                                                              *)
(***************************************************************************)
HighMedium == {"high_confidence_spotify", "medium_confidence_spotify"}
Called(op) == probe.op = op

\* C1: whenever should_include_result returns high_confidence_spotify or
\* medium_confidence_spotify the spotify_track it was given is not None, and
\* every entry of processed_results with one of these reasons carries a
\* spotify_track that is not None  (Spec)
C1_MatchHasTrack ==
    /\ (Called("should_include_result") /\ probe.out[2] \in HighMedium) => probe.spotify_track # NoneDict
    /\ \A k \in 1..Len(processed_results) :
          processed_results[k].reason \in HighMedium => processed_results[k].spotify_track # NoneDict
\* a search has stored a matched entry, its last call of should_include_result
\* returning one of the two reasons
C1_Witness ==
    /\ Called("should_include_result") /\ probe.out[2] \in HighMedium
    /\ \E k \in 1..Len(processed_results) : processed_results[k].reason \in HighMedium

\* C2: should_include_result returns high_confidence_spotify only with a
\* confidence >= 80, medium_confidence_spotify only with a confidence c,
\* 60 <= c < 80, and neither reason when calculate_spotify_match_confidence
\* of the candidate and the track is below 60  (SpecInclude)
C2_ReasonTiers ==
    Called("should_include_result") =>
        /\ probe.out[2] = "high_confidence_spotify" => probe.out[3].num >= 80 * probe.out[3].den
        /\ probe.out[2] = "medium_confidence_spotify" =>
              (probe.out[3].num >= 60 * probe.out[3].den /\ probe.out[3].num < 80 * probe.out[3].den)
        /\ (/\ Truthy(probe.spotify_track)
            /\ LET c == calculate_spotify_match_confidence(probe.youtube_result, probe.spotify_track)
               IN c.num < 60 * c.den) => probe.out[2] \notin HighMedium
\* a medium match whose confidence is exactly 60
C2_Witness ==
    /\ Called("should_include_result")
    /\ probe.out[2] = "medium_confidence_spotify"
    /\ probe.out[3].num = 60 * probe.out[3].den

\* C3: should_include_result returns (True, youtube_only) exactly when a track
\* is given, its confidence is below 60 and the relevance is >= 65, or no track
\* is given and the relevance is >= 70; with a track, confidence < 60 and
\* relevance < 65 it returns (False, low_confidence); with no track and
\* relevance < 70 it returns (False, irrelevant)  (SpecInclude)
C3_YoutubeOnly ==
    Called("should_include_result") =>
        LET given == Truthy(probe.spotify_track)
            c == calculate_spotify_match_confidence(probe.youtube_result, probe.spotify_track)
            rel == _calculate_youtube_relevance(probe.youtube_result, probe.search_query)
            weak == given /\ c.num < 60 * c.den
        IN /\ (probe.out[1] /\ probe.out[2] = "youtube_only")
                <=> ((weak /\ rel.num >= 65 * rel.den) \/ (~given /\ rel.num >= 70 * rel.den))
           /\ (weak /\ rel.num < 65 * rel.den) => (~probe.out[1] /\ probe.out[2] = "low_confidence")
           /\ (~given /\ rel.num < 70 * rel.den) => (~probe.out[1] /\ probe.out[2] = "irrelevant")
\* no track, and a relevance of exactly 70
C3_Witness ==
    /\ Called("should_include_result")
    /\ ~Truthy(probe.spotify_track)
    /\ probe.out[1] /\ probe.out[2] = "youtube_only"
    /\ probe.out[3].num = 70 * probe.out[3].den

\* the duration of a candidate as _parse_duration reads it
ParsedDuration(youtube_result) == _parse_duration(Get(youtube_result, "duration", <<>>))
OutOfRange(youtube_result) == ParsedDuration(youtube_result) < 30 \/ ParsedDuration(youtube_result) > 600

\* C4: every candidate that _perform_search places in processed_results or
\* youtube_results, a replacement found by _search_better_youtube_video
\* included, has a parsed duration d with 30 <= d <= 600  (Spec)
C4_ListedDurations ==
    /\ \A k \in 1..Len(processed_results) :
          /\ 30 <= ParsedDuration(processed_results[k].youtube_result)
          /\ ParsedDuration(processed_results[k].youtube_result) <= 600
    /\ \A k \in 1..Len(youtube_results) :
          30 <= ParsedDuration(youtube_results[k]) /\ ParsedDuration(youtube_results[k]) <= 600
\* a finished search with two candidates in both lists
C4_Witness ==
    /\ pc = "idle"
    /\ Len(processed_results) = 2
    /\ Len(youtube_results) = 2
    /\ Len(rows) = 2

\* C5: _is_valid_song returns False for every candidate whose duration parses
\* to fewer than 30 or more than 600 seconds, whatever the title, the query and
\* relaxed, and filter_youtube_results returns no such candidate  (SpecFilter)
C5_DurationGate ==
    /\ (Called("_is_valid_song") /\ OutOfRange(probe.result)) => probe.out = FALSE
    /\ Called("filter_youtube_results") => \A k \in 1..Len(probe.out) : ~OutOfRange(probe.out[k])
\* a list with a candidate of more than 600 seconds, filtered to a list that
\* is not empty
C5_Witness ==
    /\ Called("filter_youtube_results")
    /\ \E k \in 1..Len(probe.results) : ParsedDuration(probe.results[k]) > 600
    /\ probe.out # <<>>

\* C6: the file of a downloaded youtube_only result is tagged with the title
\* and the artist extracted from the candidate's own title and channel, and no
\* tag is taken from a metadata track stored with the result: the tagger is
\* handed the extracted metadata  (Spec)
C6_YoutubeOnlyTags ==
    (file_tags.downloaded /\ file_tags.entry.reason = "youtube_only") =>
        /\ "title" \in DOMAIN file_tags.tags.frames
        /\ "artist" \in DOMAIN file_tags.tags.frames
        /\ file_tags.tags.frames["title"] = _extract_youtube_metadata(file_tags.entry.youtube_result).name
        /\ file_tags.tags.frames["artist"] = _extract_youtube_metadata(file_tags.entry.youtube_result).artists[1]
        /\ file_tags.song_info = _extract_youtube_metadata(file_tags.entry.youtube_result)
\* a youtube_only result has been downloaded and the tags have been saved
C6_Witness ==
    /\ file_tags.downloaded
    /\ file_tags.entry.reason = "youtube_only"
    /\ file_tags.tags.saved

\* C7: the file of a downloaded high_confidence_spotify or
\* medium_confidence_spotify result is tagged with the matched track's title,
\* artist, album and album art, as the provider gave them  (Spec; the image
\* server answering the request for the art)
C7_MatchedTags ==
    (file_tags.downloaded /\ file_tags.entry.reason \in HighMedium /\ file_tags.art = "loaded") =>
        /\ {"title", "artist", "album"} \subseteq DOMAIN file_tags.tags.frames
        /\ file_tags.tags.frames["title"] = file_tags.entry.spotify_track.title
        /\ file_tags.tags.frames["artist"] = file_tags.entry.spotify_track.artist
        /\ file_tags.tags.frames["album"] = file_tags.entry.spotify_track.album
        /\ file_tags.tags.album_art = file_tags.entry.spotify_track.album_art
\* a matched result whose track has album art has been downloaded and tagged
C7_Witness ==
    /\ file_tags.downloaded
    /\ file_tags.entry.reason \in HighMedium
    /\ file_tags.art = "loaded"
    /\ file_tags.tags.saved
    /\ file_tags.entry.spotify_track.album_art # None

\* C8: a row shows the provider's cover art, or the provider's artist, only if
\* the reason of its result is high_confidence_spotify or
\* medium_confidence_spotify; a row whose reason is youtube_only shows the
\* placeholder and the candidate's own title and channel  (Spec)
OwnSubtitle(youtube_result) ==
    youtube_result.channel
    \o (IF youtube_result.duration # Chars("Unknown") THEN Chars(" - ") \o youtube_result.duration ELSE <<>>)
ShowsProviderArtist(row, processed_result) ==
    /\ processed_result.spotify_track # NoneDict
    /\ "artists" \in DOMAIN processed_result.spotify_track
    /\ processed_result.spotify_track.artists # <<>>
    /\ MatchesAt(row.subtitle, Join(Chars(", "), processed_result.spotify_track.artists), 0)
C8_RowsShow ==
    \A k \in 1..Len(rows) :
        /\ (rows[k].cover = "cover_art" \/ ShowsProviderArtist(rows[k], processed_results[k]))
              => processed_results[k].reason \in HighMedium
        /\ processed_results[k].reason = "youtube_only" =>
              /\ rows[k].cover = "placeholder"
              /\ rows[k].title = processed_results[k].youtube_result.title
              /\ rows[k].subtitle = OwnSubtitle(processed_results[k].youtube_result)
\* a list with a youtube_only row and a matched row that shows its cover
C8_Witness ==
    \E i, j \in 1..Len(rows) :
        /\ processed_results[i].reason = "youtube_only"
        /\ processed_results[j].reason \in HighMedium
        /\ rows[j].cover = "cover_art"

\* two candidates are duplicates when the similarity of their core titles is
\* above 80 and their parsed durations differ by at most 10 seconds
AreDuplicates(a, b) ==
    /\ fuzz_ratio(CoreLower(a), CoreLower(b)) > 80
    /\ Abs(ParsedDuration(a) - ParsedDuration(b)) <= 10

\* C9: no two candidates at different places of the output of
\* _remove_duplicates are duplicates of each other  (SpecDedup)
C9_NoDuplicatesLeft ==
    Called("_remove_duplicates") =>
        \A i, j \in 1..Len(probe.out) : i < j => ~AreDuplicates(probe.out[i], probe.out[j])
\* _remove_duplicates has dropped a duplicate
C9_Witness ==
    /\ Called("_remove_duplicates")
    /\ Len(probe.out) < Len(probe.results)
    /\ Len(probe.out) >= 2

\* C10: _remove_duplicates applied to its own output gives that output again,
\* the same candidates in the same order  (SpecDedup)
C10_Idempotent ==
    Called("_remove_duplicates twice") => probe.again = probe.out
\* the second application on an output of two candidates
C10_Witness ==
    /\ Called("_remove_duplicates twice")
    /\ Len(probe.out) >= 2
    /\ Len(probe.out) < Len(probe.results)

\* C11: _remove_duplicates returns a list no longer than its input, and every
\* candidate it returns is an element of the input  (SpecDedup)
C11_NoLongerAndFromInput ==
    Called("_remove_duplicates") =>
        /\ Len(probe.out) <= Len(probe.results)
        /\ \A k \in 1..Len(probe.out) : \E n \in 1..Len(probe.results) : probe.out[k] = probe.results[n]
\* three candidates reduced to one that is not the first of the input
C11_Witness ==
    /\ Called("_remove_duplicates")
    /\ Len(probe.results) = 3
    /\ Len(probe.out) = 1
    /\ probe.out[1] # probe.results[1]

\* a channel name containing official, records, music or vevo
OfficialChannel(youtube_result) ==
    \E word \in {"official", "records", "music", "vevo"} :
        Contains(Lower(Get(youtube_result, "channel", <<>>)), Chars(word))
\* the candidate that C12 prefers of two duplicates, first the first in the input
Preferred(first, second) ==
    IF OfficialChannel(first) # OfficialChannel(second)
    THEN (IF OfficialChannel(first) THEN first ELSE second)
    ELSE IF Len(second.title) < Len(first.title) THEN second ELSE first

\* C12: of two candidates that are duplicates of each other, _remove_duplicates
\* returns exactly the one whose channel is official when exactly one is,
\* whichever comes first; when both or neither is official, the one with the
\* strictly shorter title, and the first when the titles are equally long
\* (SpecDedup)
C12_BetterSourceKept ==
    (/\ Called("_remove_duplicates")
     /\ Len(probe.results) = 2
     /\ AreDuplicates(probe.results[1], probe.results[2]))
        => probe.out = <<Preferred(probe.results[1], probe.results[2])>>
\* the official candidate comes second and replaces the first
C12_Witness ==
    /\ Called("_remove_duplicates")
    /\ Len(probe.results) = 2
    /\ AreDuplicates(probe.results[1], probe.results[2])
    /\ ~OfficialChannel(probe.results[1])
    /\ OfficialChannel(probe.results[2])
    /\ probe.out = <<probe.results[2]>>

\* the score C13 gives a track, in thousandths, for a candidate of the given
\* number of seconds
Seconds(track) == Get(track, "duration_ms", 0) \div 1000
StatedDurationScore(track, seconds) ==
    IF Seconds(track) = 0 THEN 300
    ELSE IF Abs(Seconds(track) - seconds) <= 5 THEN 600
    ELSE IF Abs(Seconds(track) - seconds) <= 15 THEN 300
    ELSE 100
StatedScore(track, seconds) ==
    StatedDurationScore(track, seconds)
    + 3 * Get(track, "popularity", 0)
    + (IF Get(track, "name", <<>>) # <<>> /\ Get(track, "artists", <<>>) # <<>> THEN 100 ELSE 0)
\* the seconds of a candidate's "m:s" duration, 0 when it has none
CandidateSeconds(youtube_result) ==
    IF Contains(youtube_result.duration, Chars(":")) THEN ParsedDuration(youtube_result) ELSE 0

\* C13: _find_best_spotify_match returns None when the list is empty or no
\* track scores above 0.4; otherwise it returns the first track of the list
\* whose score is the greatest  (SpecMatch)
C13_BestMatch ==
    Called("_find_best_spotify_match") =>
        LET tracks == probe.spotify_results
            seconds == CandidateSeconds(probe.youtube_result)
            above == {k \in 1..Len(tracks) : StatedScore(tracks[k], seconds) > 400}
        IN IF above = {} THEN probe.out = NoneDict
           ELSE \E k \in above :
                   /\ probe.out = tracks[k]
                   /\ \A j \in 1..Len(tracks) : StatedScore(tracks[j], seconds) <= StatedScore(tracks[k], seconds)
                   /\ \A j \in 1..(k - 1) : StatedScore(tracks[j], seconds) < StatedScore(tracks[k], seconds)
\* two different tracks with the same greatest score: the first is returned
C13_Witness ==
    /\ Called("_find_best_spotify_match")
    /\ Len(probe.spotify_results) = 2
    /\ probe.spotify_results[1] # probe.spotify_results[2]
    /\ StatedScore(probe.spotify_results[1], CandidateSeconds(probe.youtube_result))
         = StatedScore(probe.spotify_results[2], CandidateSeconds(probe.youtube_result))
    /\ probe.out = probe.spotify_results[1]

\* the queries of the entries of the pool, computed once
QueriesOfEntries == [y \in 1..Len(FormattedEntries) |-> SearchQueries(FormattedEntries[y])] \o <<>>
\* the first call of spotify_calls that was answered with some track
FirstFound == SetMin({k \in 1..Len(spotify_calls) : spotify_calls[k].tracks # {}})

\* C14: the metadata queries for one candidate are issued in the order of its
\* list of queries; once a query has been answered with a list that is not
\* empty no further query is issued for the candidate, and the matched track,
\* if there is one, is of that list  (Spec)
C14_FirstFoundTaken ==
    /\ \A k \in 1..Len(spotify_calls) :
          spotify_calls[k].query = QueriesOfEntries[IndexIn(FormattedEntries, spotify_calls[k].youtube_result)][k]
    /\ \A i, j \in 1..Len(spotify_calls) : i < j => spotify_calls[i].tracks = {}
    /\ (/\ spotify_calls # <<>>
        /\ Called("should_include_result")
        /\ probe.youtube_result = spotify_calls[1].youtube_result
        /\ probe.spotify_track # NoneDict)
          => probe.spotify_track \in spotify_calls[FirstFound].tracks
\* a second query answered after a first one that found nothing
C14_Witness ==
    /\ pc = "matching"
    /\ Len(spotify_calls) = 2
    /\ spotify_calls[1].tracks = {}
    /\ spotify_calls[2].tracks # {}

\* a raw result that _is_valid_song turns down for the query of the search
\* (computed once for the entries and the inputs of the pools)
ValidSongs ==
    [y \in 1..Len(FormattedEntries) |->
        [q \in 1..Len(StrippedInputs) |->
            _is_valid_song(FormattedEntries[y], StrippedInputs[q], _is_artist_search(StrippedInputs[q]))] \o <<>>] \o <<>>
Rejected(youtube_result) ==
    ~ValidSongs[IndexIn(FormattedEntries, youtube_result)][IndexIn(StrippedInputs, query)]

\* C16: in _perform_search the provider is queried only for candidates that
\* filter_youtube_results returned: for a raw result that the validator turned
\* down no metadata query is issued, and it is never put in processed_results
\* (Spec; a property of every step of the search in progress)
C16_ValidatedBeforeMatching ==
    [][pc = "matching" =>
          /\ \A k \in 1..Len(spotify_calls') : spotify_calls'[k].youtube_result \in SeqToSet(filtered)
          /\ \A y \in raw_youtube_results : Rejected(y) =>
                /\ \A k \in 1..Len(spotify_calls') : spotify_calls'[k].youtube_result # y
                /\ \A k \in 1..Len(processed_results') : processed_results'[k].youtube_result # y]_vars
\* a search whose raw results held one of more than 600 seconds, after a
\* query for the candidate that was not turned down
C16_Witness ==
    /\ pc = "matching"
    /\ \E y \in raw_youtube_results : Rejected(y) /\ ParsedDuration(y) > 600
    /\ spotify_calls # <<>>

\* the case of C15: the cleaned title of the candidate contains the cleaned
\* name of the track and the cleaned name of its first artist, and the two
\* durations are known and at most 5 seconds apart
NamedInTitle(youtube_result, spotify_track) ==
    /\ {"name", "artists", "duration_ms"} \subseteq DOMAIN spotify_track
    /\ spotify_track.artists # <<>>
    /\ Contains(clean_search_query(youtube_result.title), clean_search_query(spotify_track.name))
    /\ Contains(clean_search_query(youtube_result.title), clean_search_query(spotify_track.artists[1]))
    /\ ParsedDuration(youtube_result) > 0
    /\ Seconds(spotify_track) > 0
    /\ Abs(ParsedDuration(youtube_result) - Seconds(spotify_track)) <= 5

\* C15: for a candidate whose cleaned title contains the track's cleaned name
\* and the cleaned name of its first artist, and whose duration is within 5
\* seconds of the track's, should_include_result returns
\* (True, high_confidence_spotify, c) with c >= 80  (SpecInclude)
C15_NamedMatchIsHigh ==
    (Called("should_include_result") /\ NamedInTitle(probe.youtube_result, probe.spotify_track)) =>
        /\ probe.out[1] = TRUE
        /\ probe.out[2] = "high_confidence_spotify"
        /\ probe.out[3].num >= 80 * probe.out[3].den
\* the case with a title that carries a decoration
C15_Witness ==
    /\ Called("should_include_result")
    /\ NamedInTitle(probe.youtube_result, probe.spotify_track)
    /\ probe.youtube_result.title # Chars("Ab - Cd")
    /\ probe.out[2] = "high_confidence_spotify"

\* the song part of a candidate for the query of the probe, in lower case
SongPartOf(youtube_result) == Lower(_extract_song_from_title(youtube_result.title, probe.search_query))

\* C17: for an artist search and more than 5 candidates _ensure_artist_variety
\* returns at most 10 candidates, each one of the input, no two of them with
\* the same extracted song part, letter case aside  (SpecVariety)
C17_VarietyOfSongs ==
    (/\ Called("_ensure_artist_variety")
     /\ _is_artist_search(probe.search_query)
     /\ Len(probe.results) > 5)
        => /\ Len(probe.out) <= 10
           /\ \A k \in 1..Len(probe.out) : \E n \in 1..Len(probe.results) : probe.out[k] = probe.results[n]
           /\ \A i, j \in 1..Len(probe.out) : i < j => SongPartOf(probe.out[i]) # SongPartOf(probe.out[j])
\* more than ten songs in the input, one of them twice: ten are returned
C17_Witness ==
    /\ Called("_ensure_artist_variety")
    /\ Len(probe.results) = 12
    /\ Len(probe.out) = 10
    /\ \E i, j \in 1..Len(probe.results) :
          i < j /\ SongPartOf(probe.results[i]) = SongPartOf(probe.results[j])

\* a non-empty string of decimal digits, and the number it writes
IsNumber(s) == s # <<>> /\ \A i \in 1..Len(s) : s[i] \in SeqToSet(Digits)
NumberOf(s) == DigitsVal(s, 1, 0)
\* the value stated for a duration string: m*60+s for "m:s", h*3600+m*60+s
\* for "h:m:s", 0 for everything else
StatedSeconds(duration_str) ==
    IF duration_str = None THEN 0
    ELSE LET parts == SplitOn(duration_str, Chars(":"))
         IN IF Len(parts) \notin {2, 3} \/ \E k \in 1..Len(parts) : ~IsNumber(parts[k]) THEN 0
            ELSE IF Len(parts) = 2 THEN NumberOf(parts[1]) * 60 + NumberOf(parts[2])
            ELSE NumberOf(parts[1]) * 3600 + NumberOf(parts[2]) * 60 + NumberOf(parts[3])

\* C18: for every string, and for no duration at all, _parse_duration returns
\* an integer that is not negative: m*60+s for "m:s", h*3600+m*60+s for
\* "h:m:s", 0 for the empty string and for every other input  (SpecFilter)
C18_TotalNonNegative ==
    Called("_parse_duration")
        => /\ probe.out \in Nat
           /\ probe.out = StatedSeconds(probe.duration_str)
\* a string of the form "h:m:s" has been parsed
C18_Witness ==
    /\ Called("_parse_duration")
    /\ probe.duration_str = Chars("1:02:03")
    /\ probe.out = 3723
\* the inputs on which the parser leaves the stated value all carry a sign
C18_OnlySigned ==
    (Called("_parse_duration") /\ probe.out # StatedSeconds(probe.duration_str))
        => probe.duration_str # None /\ Contains(probe.duration_str, Chars("-"))

\* the scores the two comparisons give to two known durations far apart
MismatchSimilarity == _calculate_duration_similarity(100, 300)
MismatchMatchScore == DurationMatchScore(300, 100)
\* one of the two compared durations is 0
OneUnknown == probe.youtube_duration = 0 \/ probe.spotify_duration = 0

\* C19: in the duration comparison of the confidence scorer and in that of
\* the best match, a candidate's or a track's duration of 0 counts as unknown:
\* the comparison does not give the score it gives to two known durations
\* far apart  (SpecDuration)
C19_ZeroIsUnknown ==
    /\ (Called("_calculate_duration_similarity") /\ OneUnknown) => probe.out # MismatchSimilarity
    /\ (Called("duration matching") /\ OneUnknown) => probe.out # MismatchMatchScore
\* the best match has compared a track without duration with a candidate of
\* known duration, and given the neutral 0.3
C19_Witness ==
    /\ Called("duration matching")
    /\ probe.spotify_duration = 0 /\ probe.youtube_duration = 225
    /\ probe.out = 300
\* of the best match's comparisons only those of a candidate without duration
\* with a track that has one give the score of a mismatch
C19_TrackWithoutDuration ==
    (Called("duration matching") /\ probe.spotify_duration = 0) => probe.out = 300

\* a field of the track of the probe is absent or empty
Absent(key, empty) == Get(probe.spotify_track, key, empty) = empty
Neutral == {0, 50}

\* C20: for a track whose name, artists or duration_ms is absent or empty
\* calculate_spotify_match_confidence returns a confidence, and the score of
\* each absent field (title, artist, duration) is the neutral 50 or 0  (SpecInclude)
C20_AbsentIsNeutral ==
    Called("calculate_spotify_match_confidence")
        => /\ AtLeast(probe.out, 0) /\ ~AtLeast(probe.out, 101)
           /\ Absent("name", <<>>) => probe.title_score \in Neutral
           /\ Absent("artists", <<>>) => probe.artist_score \in Neutral
           /\ Absent("duration_ms", 0) => probe.duration_score \in Neutral
\* a track with only a name has been scored: 50 for the artist, 0 for the duration
C20_Witness ==
    /\ Called("calculate_spotify_match_confidence")
    /\ DOMAIN probe.spotify_track = {"name"}
    /\ probe.artist_score = 50 /\ probe.duration_score = 0
\* the scores of absent artists and of an absent duration are neutral; only
\* the title score of an absent name is not
C20_ArtistAndDurationNeutral ==
    Called("calculate_spotify_match_confidence")
        => /\ Absent("artists", <<>>) => probe.artist_score = 50
           /\ Absent("duration_ms", 0) => probe.duration_score = 0
           /\ Absent("name", <<>>) => probe.title_score >= 85

\* a call has ended in an exception
Raised == Called("filter_youtube_results raised") \/ Called("should_include_result raised")

\* C21: filter_youtube_results and should_include_result never raise: for an
\* empty list, an empty query and candidates whose title, channel or duration
\* is absent, None, empty or unparseable they return, and an empty list gives
\* an empty list  (SpecMalformed)
C21_NeverRaises ==
    /\ ~Raised
    /\ (Called("filter_youtube_results") /\ probe.results = <<>>) => probe.out = <<>>
\* the filter has returned for a list whose candidate has no title, and
\* another whose duration is None
C21_Witness ==
    /\ Called("filter_youtube_results")
    /\ Len(probe.results) = 2
    /\ "title" \notin DOMAIN probe.results[1]
    /\ IsNone(probe.results[2], "duration")
\* an exception needs a title that is None, or a channel that is None on one
\* of two duplicates
C21_OnlyNone ==
    /\ Called("should_include_result raised") => IsNone(probe.youtube_result, "title")
    /\ Called("filter_youtube_results raised")
          => \E k \in 1..Len(probe.results) :
                IsNone(probe.results[k], "title") \/ IsNone(probe.results[k], "channel")

\* a score between 0 and 100
InPercent(score) == AtLeast(score, 0) /\ score.num <= 100 * score.den

\* C22: the value of calculate_spotify_match_confidence and the score that
\* should_include_result returns as its third component, a match confidence
\* or a YouTube relevance, lie between 0 and 100  (SpecInclude)
C22_ScoresInPercent ==
    /\ Called("calculate_spotify_match_confidence") => InPercent(probe.out)
    /\ Called("should_include_result") => InPercent(probe.out[3])
\* a match confidence of 95 and more has been returned as the score
C22_Witness ==
    /\ Called("should_include_result")
    /\ probe.out[2] = "high_confidence_spotify"
    /\ AtLeast(probe.out[3], 95)

\* what the provider answers to the call that probe records
ProviderAnswer == spotify_search(provider, probe.query, probe.limit)

\* C23: against a provider that is a fixed function of the query text and the
\* limit, every call of search_track returns the list the provider returns
\* for its query and limit, from the cache or not  (SpecCache)
C23_CacheTransparent ==
    Called("search_track") => probe.out = ProviderAnswer
\* C23 as it holds: the same, for a provider whose answer does not depend on
\* the letter case and the surrounding blanks of the query  (SpecCache)
C23_TransparentWhenFolding ==
    (Called("search_track") /\ provider = "folding") => probe.out = ProviderAnswer
\* the query in capitals has been answered from the entry of the other spelling
C23_Witness ==
    /\ Called("search_track")
    /\ provider = "folding"
    /\ ~probe.api_call
    /\ probe.query = Chars(" AB cd")
    /\ memory_cache[<<Chars("ab cd"), probe.limit>>].query = Chars("ab cd")

\* the same query up to letter case and surrounding blanks
Folded(search_text) == Strip(Lower(search_text))
\* the provider's response to an earlier call of this process for the query
\* and limit of the call in probe', not older than cache_duration
EarlierResponse ==
    /\ <<Folded(probe'.query), probe'.limit>> \in DOMAIN api_responses
    /\ now - api_responses[<<Folded(probe'.query), probe'.limit>>].time < cache_duration

\* C24: once a call of search_track for a query and limit has had a response
\* from the provider, every later call with this limit and this query up to
\* letter case and surrounding blanks, before the entry expires, is answered
\* with the stored list and makes no call of the provider  (SpecCache)
C24_AnsweredFromCache ==
    [][(probe'.op = "search_track" /\ EarlierResponse)
          => /\ ~probe'.api_call
             /\ probe'.out = api_responses[<<Folded(probe'.query), probe'.limit>>].results]_vars
\* a call in the other spelling, half a cache_duration after the response,
\* has been answered from the cache
C24_Witness ==
    /\ Called("search_track")
    /\ ~probe.api_call
    /\ <<Folded(probe.query), probe.limit>> \in DOMAIN api_responses
    /\ now - api_responses[<<Folded(probe.query), probe.limit>>].time = TickLength
    /\ memory_cache[<<Folded(probe.query), probe.limit>>].query # probe.query

\* the age of the entry that get finds for the query and limit in probe'
FoundAge == now - memory_cache[<<Folded(probe'.query), probe'.limit>>].timestamp
\* C30: get never returns the results of an entry whose age is cache_duration
\* or more: it returns None and removes the entry from memory_cache; and
\* no entry that is expired when the file is loaded is loaded  (SpecCache)
C30_ExpiredNeverReturned ==
    [][/\ (/\ probe'.op = "get"
           /\ <<Folded(probe'.query), probe'.limit>> \in DOMAIN memory_cache
           /\ FoundAge >= cache_duration)
          => /\ ~probe'.found
             /\ <<Folded(probe'.query), probe'.limit>> \notin DOMAIN memory_cache'
       /\ probe'.op = "__init__"
          => \A k \in DOMAIN memory_cache' : now' - memory_cache'[k].timestamp < cache_duration]_vars
\* get has found an entry of the age of cache_duration, returned None and
\* removed it, and the file still holds entries that have expired
C30_Witness ==
    /\ Called("get")
    /\ ~probe.found /\ probe.expired
    /\ <<Folded(probe.query), probe.limit>> \in DOMAIN api_responses
    /\ now - api_responses[<<Folded(probe.query), probe.limit>>].time = cache_duration
    /\ <<Folded(probe.query), probe.limit>> \notin DOMAIN memory_cache
    /\ \E k \in DOMAIN cache_file : now - cache_file[k].timestamp >= cache_duration

\* youtube_results[i] is the candidate of processed_results[i] for every i
Aligned(ys, ps) ==
    /\ Len(ys) = Len(ps)
    /\ \A i \in 1..Len(ps) : ys[i] = ps[i].youtube_result
\* a step in which a search ends: _on_search that finds nothing to match, or
\* the last round of the loop of _perform_search
SearchEnds ==
    \/ OnSearch /\ pc' = "idle"
    \/ pc = "matching" /\ pc' = "idle"

\* C25: when a search ends, with results, without or in failure,
\* processed_results, youtube_results and the selected index are those of
\* this search: no entry of processed_results comes from an earlier search,
\* and youtube_results[i] is the candidate of processed_results[i]  (Spec)
C25_NoStateAcrossSearches ==
    [][SearchEnds
          => /\ Aligned(youtube_results', processed_results')
             /\ pc = "idle" => processed_results' = <<>>
             /\ pc = "matching"
                   => \A i \in 1..Len(processed_results') :
                         \/ processed_results'[i].youtube_result \in SeqToSet(filtered)
                         \/ processed_results'[i].improved_match
             /\ selected_youtube_index' = -1]_vars
\* a search has ended with two entries, in step with youtube_results
C25_Witness ==
    /\ pc = "idle"
    /\ Len(processed_results) = 2
    /\ Aligned(youtube_results, processed_results)
    /\ selected_youtube_index = -1

\* C26: for an artist search and more than 5 candidates the output of
\* _ensure_artist_variety has no near-duplicates: no two returned candidates
\* have song parts that are more than 70 similar  (SpecVariety)
C26_NoNearDuplicates ==
    (/\ Called("_ensure_artist_variety")
     /\ _is_artist_search(probe.search_query)
     /\ Len(probe.results) > 5)
        => \A i, j \in 1..Len(probe.out) :
              i < j => fuzz_ratio(SongPartOf(probe.out[i]), SongPartOf(probe.out[j])) <= 70
\* three candidates with near song parts have come down to one
C26_Witness ==
    /\ Called("_ensure_artist_variety")
    /\ Len(probe.results) > 5
    /\ Cardinality({k \in 1..Len(probe.results) : SongPartOf(probe.results[k]) \in {Chars("cd"), Chars("cde")}}) >= 3
    /\ Cardinality({k \in 1..Len(probe.out) : SongPartOf(probe.out[k]) \in {Chars("cd"), Chars("cde"), Chars("cdef")}}) = 1

AsFormatted(track) == "name" \notin DOMAIN track /\ "popularity" \notin DOMAIN track
HasFormattedOnly(spotify_results) ==
    \A k \in 1..Len(spotify_results) : AsFormatted(spotify_results[k])
YoutubeSeconds == _parse_duration_to_seconds(Get(probe.youtube_result, "duration", Chars("0:00")))
\* C28: for track records shaped as search_track produces them,
\* _find_best_spotify_match returns a track only if that track's duration is
\* known and within 5 seconds of the candidate's; so the search strategy never
\* goes on to _search_better_youtube_video and no replacement is returned
\* (SpecMatch)
C28_OnlyCloseDurations ==
    (Called("_find_best_spotify_match") /\ HasFormattedOnly(probe.spotify_results))
        => /\ probe.out # NoneDict
                => /\ Get(probe.out, "duration_ms", 0) \div 1000 > 0
                   /\ Abs(Get(probe.out, "duration_ms", 0) \div 1000 - YoutubeSeconds) <= 5
           /\ ~AsksBetter(probe.youtube_result, probe.spotify_results)
           /\ \A r \in 1..Len(MatchCandidates) :
                 TryQuery(probe.youtube_result, probe.spotify_results, <<MatchCandidates[r]>>)
                     \in {<<"next">>, <<"return", probe.out, NoneDict>>}
\* a track is returned from a list that also holds a track further away
C28_Witness ==
    /\ Called("_find_best_spotify_match")
    /\ HasFormattedOnly(probe.spotify_results)
    /\ probe.out # NoneDict
    /\ \E k \in 1..Len(probe.spotify_results) :
          Abs(Get(probe.spotify_results[k], "duration_ms", 0) \div 1000 - YoutubeSeconds) > 5
    /\ HasArtistAndSong(extract_song_info(clean_search_query(Get(probe.youtube_result, "title", <<>>))))

\* the durations of the candidate and the track of the probe are more than 30
\* seconds apart, or one of them is unknown
DurationsApart ==
    LET youtube_duration == _parse_duration(Get(probe.youtube_result, "duration", <<>>))
        spotify_duration == Get(probe.spotify_track, "duration_ms", 0) \div 1000
    IN \/ youtube_duration = 0
       \/ spotify_duration = 0
       \/ Abs(youtube_duration - spotify_duration) > 30
\* C29: a matched track whose duration is more than 30 seconds from the
\* candidate's, or unknown on either side, has a match confidence of at most
\* 65 and is never tagged high_confidence_spotify  (SpecInclude)
C29_FarDurationNeverHigh ==
    /\ (Called("calculate_spotify_match_confidence") /\ DurationsApart)
          => /\ probe.duration_score = 0
             /\ probe.out.num <= 65 * probe.out.den
    /\ (Called("should_include_result") /\ Truthy(probe.spotify_track) /\ DurationsApart)
          => probe.out[2] # "high_confidence_spotify"
\* the track named in the candidate's title, with its artist, 75 seconds longer
C29_Witness ==
    /\ Called("calculate_spotify_match_confidence")
    /\ DurationsApart
    /\ probe.title_score = 100
    /\ probe.artist_score = 90
    /\ AtLeast(probe.out, 60)

====
